---- MODULE Spec2Model ----
(***************************************************************************)
(* State-machine model of Urho3D's RigidBody component                     *)
(* (Source/Engine/Physics/RigidBody.cpp): world membership, the            *)
(* attribute/rebuild path, the transform bridge between the scene node     *)
(* and the simulated body, forces and impulses, gravity, the compound      *)
(* shapes with the mass properties, constraints and teardown, the          *)
(* SmoothedTransform collaborator, node destruction and the setters of     *)
(* the properties kept by the btRigidBody.                                 *)
(*                                                                         *)
(* Vectors are pairs of integers, rotations are quarter turns about one    *)
(* axis (the group Z4), so that rotation * centerOfMass is computed and    *)
(* not assumed away.  Every handler is a state transformer over a record   *)
(* s = [rb, node, world, scene, nextBody, trace]; an action applies one    *)
(* handler, with every call it makes, to the current state.                *)
(***************************************************************************)
EXTENDS Integers, Sequences, FiniteSets, TLC

VARIABLES
    rb,         \* RigidBody components, indexed by component
    node,       \* scene nodes: parent, local transform, attached components
    world,      \* the PhysicsWorld of the scene
    scene,      \* the Scene: threaded-update flag and delayed dirty queue
    nextBody,   \* allocation counter of btRigidBody objects
    trace       \* the calls made by the handler of the last step

vars == <<rb, node, world, scene, nextBody, trace>>

-----------------------------------------------------------------------------
\* Bounds of the model

\* number of btRigidBody objects one run may allocate
MaxBodies == 2
\* largest coordinate the simulation or scene code writes
MaxCoord == 1

-----------------------------------------------------------------------------
\* Identities and values

NullPtr == 0
SceneRoot == 3
ParentBody == 1
ChildBody == 2
RigidBodies == {ParentBody, ChildBody}
Nodes == {ParentBody, ChildBody}

DEFAULT_MASS == 0
DEFAULT_COLLISION_LAYER == 1
DEFAULT_COLLISION_MASK == 3

Zero == <<0, 0>>
IDENTITY == 0

Coords == 0..MaxCoord
Positions == {<<x, 0>> : x \in Coords}
Rotations == {0, 1}
Velocities == {Zero, <<1, 0>>}
Masses == {-1, 0, 1}
Layers == {1, 2}
Masks == {3, 1}

VAdd(a, b) == <<a[1] + b[1], a[2] + b[2]>>
VSub(a, b) == <<a[1] - b[1], a[2] - b[2]>>

\* Quaternion * Vector3 for a rotation of q quarter turns
Rotate(q, v) ==
    CASE q % 4 = 0 -> v
      [] q % 4 = 1 -> <<0 - v[2], v[1]>>
      [] q % 4 = 2 -> <<0 - v[1], 0 - v[2]>>
      [] q % 4 = 3 -> <<v[2], 0 - v[1]>>

QMul(a, b) == (a + b) % 4
QInverse(q) == (4 - (q % 4)) % 4

Max(a, b) == IF a >= b THEN a ELSE b

-----------------------------------------------------------------------------
\* The state as one record, and the log of calls

State ==
    [rb |-> rb, node |-> node, world |-> world, scene |-> scene,
     nextBody |-> nextBody, trace |-> trace]

Emit(s, call) == [s EXCEPT !.trace = Append(@, call)]

\* every handler starts with an empty call log
Begin == [State EXCEPT !.trace = <<>>]

Commit(s) ==
    /\ s.nextBody <= MaxBodies + 1
    /\ rb' = s.rb
    /\ node' = s.node
    /\ world' = s.world
    /\ scene' = s.scene
    /\ nextBody' = s.nextBody
    /\ trace' = s.trace

Called(name, e) == \E i \in 1..Len(trace) : trace[i] = <<name, e>>
CalledIn(t, name, e) == \E i \in 1..Len(t) : t[i] = <<name, e>>

-----------------------------------------------------------------------------
\* Scene graph (Node): world transform through the parent chain

NodeInScene(s, n) ==
    \/ s.node[n].parent = SceneRoot
    \/ /\ s.node[n].parent \in Nodes
       /\ s.node[s.node[n].parent].parent = SceneRoot

RECURSIVE NodeWorldRotation(_, _)
NodeWorldRotation(s, n) ==
    IF n \notin Nodes THEN IDENTITY
    ELSE QMul(NodeWorldRotation(s, s.node[n].parent), s.node[n].rot)

RECURSIVE NodeWorldPosition(_, _)
NodeWorldPosition(s, n) ==
    IF n \notin Nodes THEN Zero
    ELSE VAdd(NodeWorldPosition(s, s.node[n].parent),
              Rotate(NodeWorldRotation(s, s.node[n].parent), s.node[n].pos))

-----------------------------------------------------------------------------
\* Constructor

NoBody ==
    [mass |-> 0, inertia |-> <<0, 0, 0>>, pos |-> Zero, rot |-> IDENTITY,
     linVel |-> Zero, angVel |-> Zero, totalForce |-> Zero,
     totalTorque |-> Zero, active |-> FALSE,
     kinematic |-> FALSE, noContactResponse |-> FALSE,
     customMaterial |-> FALSE, disableWorldGravity |-> FALSE,
     gravity |-> Zero, shape |-> "none",
     friction |-> 0, ccdSweptSphereRadius |-> 0]

RigidBodyCtor ==
    [node_ |-> NullPtr, physicsWorld_ |-> FALSE, enabled_ |-> TRUE,
     body_ |-> NullPtr, bt |-> NoBody,
     compoundShape_ |-> <<>>, shiftedCompoundShape_ |-> <<>>,
     gravityOverride_ |-> Zero, centerOfMass_ |-> Zero,
     mass_ |-> DEFAULT_MASS,
     collisionLayer_ |-> DEFAULT_COLLISION_LAYER,
     collisionMask_ |-> DEFAULT_COLLISION_MASK,
     lastPosition_ |-> Zero, lastRotation_ |-> IDENTITY,
     kinematic_ |-> FALSE, phantom_ |-> FALSE, useGravity_ |-> TRUE,
     hasSmoothedTransform_ |-> FALSE, readdBody_ |-> FALSE,
     inWorld_ |-> FALSE, constraints_ |-> {}]

-----------------------------------------------------------------------------
\* Component and collaborator calls that RigidBody.cpp makes

\* Component::MarkNetworkUpdate: recorded as a call
MarkNetworkUpdate(s, e) == Emit(s, <<"MarkNetworkUpdate", e>>)

\* Component::IsEnabledEffective
IsEnabledEffective(s, e) == s.rb[e].enabled_

\* Component::GetScene: the scene of the component's node, if any
GetScene(s, e) ==
    IF s.rb[e].node_ # NullPtr /\ NodeInScene(s, s.rb[e].node_)
    THEN SceneRoot ELSE NullPtr

\* btDiscreteDynamicsWorld::addRigidBody / removeRigidBody
RECURSIVE RemoveFirst(_, _)
RemoveFirst(seq, id) ==
    IF seq = <<>> THEN <<>>
    ELSE IF Head(seq).id = id THEN Tail(seq)
    ELSE <<Head(seq)>> \o RemoveFirst(Tail(seq), id)

addRigidBody(s, id, layer, mask) ==
    Emit([s EXCEPT !.world.bodies =
              Append(@, [id |-> id, layer |-> layer, mask |-> mask])],
         <<"addRigidBody", id>>)

removeRigidBody(s, id) ==
    Emit([s EXCEPT !.world.bodies = RemoveFirst(@, id)],
         <<"removeRigidBody", id>>)

Registrations(w, id) == {i \in 1..Len(w.bodies) : w.bodies[i].id = id}

-----------------------------------------------------------------------------
\* RigidBody: activation, position and velocity accessors

Activate(s, e) ==
    IF s.rb[e].body_ # NullPtr /\ s.rb[e].mass_ > 0
    THEN [s EXCEPT !.rb[e].bt.active = TRUE]
    ELSE s

GetPosition(s, e) ==
    IF s.rb[e].body_ # NullPtr
    THEN VSub(s.rb[e].bt.pos, Rotate(s.rb[e].bt.rot, s.rb[e].centerOfMass_))
    ELSE Zero

GetRotation(s, e) ==
    IF s.rb[e].body_ # NullPtr THEN s.rb[e].bt.rot ELSE IDENTITY

SetPosition(s, e, position) ==
    IF s.rb[e].body_ # NullPtr
    THEN LET s1 == [s EXCEPT !.rb[e].bt.pos =
                        VAdd(position,
                             Rotate(s.rb[e].bt.rot, s.rb[e].centerOfMass_))]
         IN  MarkNetworkUpdate(Activate(s1, e), e)
    ELSE s

SetRotation(s, e, rotation) ==
    IF s.rb[e].body_ # NullPtr
    THEN LET oldPosition == GetPosition(s, e)
             s1 == [s EXCEPT !.rb[e].bt.rot = rotation]
             s2 == IF s.rb[e].centerOfMass_ # Zero
                   THEN [s1 EXCEPT !.rb[e].bt.pos =
                            VAdd(oldPosition,
                                 Rotate(rotation, s.rb[e].centerOfMass_))]
                   ELSE s1
         IN  MarkNetworkUpdate(Activate(s2, e), e)
    ELSE s

SetLinearVelocity(s, e, velocity) ==
    IF s.rb[e].body_ # NullPtr
    THEN LET s1 == [s EXCEPT !.rb[e].bt.linVel = velocity]
             s2 == IF velocity # Zero THEN Activate(s1, e) ELSE s1
         IN  MarkNetworkUpdate(s2, e)
    ELSE s

SetAngularVelocity(s, e, velocity) ==
    IF s.rb[e].body_ # NullPtr
    THEN LET s1 == [s EXCEPT !.rb[e].bt.angVel = velocity]
             s2 == IF velocity # Zero THEN Activate(s1, e) ELSE s1
         IN  MarkNetworkUpdate(s2, e)
    ELSE s

-----------------------------------------------------------------------------
\* Transform bridge

\* btMotionState::getWorldTransform; worldTrans is the body's world transform
getWorldTransform(s, e) ==
    IF s.rb[e].node_ # NullPtr
    THEN LET p == NodeWorldPosition(s, s.rb[e].node_)
             q == NodeWorldRotation(s, s.rb[e].node_)
         IN  [s EXCEPT !.rb[e].lastPosition_ = p,
                       !.rb[e].lastRotation_ = q,
                       !.rb[e].bt.pos = VAdd(p, Rotate(q, s.rb[e].centerOfMass_)),
                       !.rb[e].bt.rot = q]
    ELSE s

\* Scene::DelayedMarkedDirty
DelayedMarkedDirty(s, e) ==
    [s EXCEPT !.scene.delayedDirty = @ \cup {e}]

\* faulty variant: OnMarkedDirty without the applying-transforms test
OnMarkedDirty_NoReentrancyGuard(s, e) ==
    IF ~s.rb[e].hasSmoothedTransform_
    THEN IF GetScene(s, e) # NullPtr /\ s.scene.threadedUpdate
         THEN DelayedMarkedDirty(s, e)
         ELSE LET newPosition == NodeWorldPosition(s, s.rb[e].node_)
                  newRotation == NodeWorldRotation(s, s.rb[e].node_)
                  s1 == IF newRotation # s.rb[e].lastRotation_
                        THEN SetRotation(
                                 [s EXCEPT !.rb[e].lastRotation_ = newRotation],
                                 e, newRotation)
                        ELSE s
                  s2 == IF newPosition # s1.rb[e].lastPosition_
                        THEN SetPosition(
                                 [s1 EXCEPT !.rb[e].lastPosition_ = newPosition],
                                 e, newPosition)
                        ELSE s1
              IN  s2
    ELSE s

\* faulty variant: OnMarkedDirty without the threaded-update test
OnMarkedDirty_NoThreadCheck(s, e) ==
    IF (~s.rb[e].physicsWorld_ \/ ~s.world.applyingTransforms_)
       /\ ~s.rb[e].hasSmoothedTransform_
    THEN LET newPosition == NodeWorldPosition(s, s.rb[e].node_)
             newRotation == NodeWorldRotation(s, s.rb[e].node_)
             s1 == IF newRotation # s.rb[e].lastRotation_
                   THEN SetRotation(
                            [s EXCEPT !.rb[e].lastRotation_ = newRotation],
                            e, newRotation)
                   ELSE s
             s2 == IF newPosition # s1.rb[e].lastPosition_
                   THEN SetPosition(
                            [s1 EXCEPT !.rb[e].lastPosition_ = newPosition],
                            e, newPosition)
                   ELSE s1
         IN  s2
    ELSE s

OnMarkedDirty(s, e) ==
    IF (~s.rb[e].physicsWorld_ \/ ~s.world.applyingTransforms_)
       /\ ~s.rb[e].hasSmoothedTransform_
    THEN IF GetScene(s, e) # NullPtr /\ s.scene.threadedUpdate
         THEN DelayedMarkedDirty(s, e)
         ELSE LET newPosition == NodeWorldPosition(s, s.rb[e].node_)
                  newRotation == NodeWorldRotation(s, s.rb[e].node_)
                  s1 == IF newRotation # s.rb[e].lastRotation_
                        THEN SetRotation(
                                 [s EXCEPT !.rb[e].lastRotation_ = newRotation],
                                 e, newRotation)
                        ELSE s
                  s2 == IF newPosition # s1.rb[e].lastPosition_
                        THEN SetPosition(
                                 [s1 EXCEPT !.rb[e].lastPosition_ = newPosition],
                                 e, newPosition)
                        ELSE s1
              IN  s2
    ELSE s

\* One delivery of the dirty notification to a listener.  The delivery is
\* logged with the conditions it met on entry (applying-transforms flag,
\* smoothing mode, threaded phase) and with what it did (changed the
\* component or the world; entered the scene's delayed queue).
LogDelivery(s, t, e) ==
    Emit(t, <<"OnMarkedDirty", e,
              s.rb[e].physicsWorld_ /\ s.world.applyingTransforms_,
              s.rb[e].hasSmoothedTransform_,
              s.scene.threadedUpdate,
              t.rb # s.rb \/ t.world # s.world,
              t.scene.delayedDirty # s.scene.delayedDirty
                  /\ e \in t.scene.delayedDirty>>)

NotifyMarkedDirty(s, e) == LogDelivery(s, OnMarkedDirty(s, e), e)

\* Node::MarkDirty: listeners of the node first, then those of its children
ListenerSeq(s, n) ==
    SelectSeq(<<ParentBody, ChildBody>>, LAMBDA e : s.rb[e].node_ = n)
    \o SelectSeq(<<ParentBody, ChildBody>>,
                 LAMBDA e : /\ s.rb[e].node_ # NullPtr
                            /\ s.rb[e].node_ # n
                            /\ s.node[s.rb[e].node_].parent = n)

RECURSIVE NotifyAll(_, _)
NotifyAll(s, seq) ==
    IF seq = <<>> THEN s
    ELSE NotifyAll(NotifyMarkedDirty(s, Head(seq)), Tail(seq))

MarkDirty(s, n) == NotifyAll(s, ListenerSeq(s, n))

\* Node::SetWorldPosition / Node::SetWorldRotation
NodeSetWorldPosition(s, n, p) ==
    LET pp == NodeWorldPosition(s, s.node[n].parent)
        pq == NodeWorldRotation(s, s.node[n].parent)
    IN  MarkDirty([s EXCEPT !.node[n].pos = Rotate(QInverse(pq), VSub(p, pp))],
                  n)

NodeSetWorldRotation(s, n, q) ==
    LET pq == NodeWorldRotation(s, s.node[n].parent)
    IN  MarkDirty([s EXCEPT !.node[n].rot = QMul(QInverse(pq), q)], n)

\* RigidBody::HandleTargetPosition / HandleTargetRotation
HandleTargetPosition(s, e) ==
    IF ~s.rb[e].physicsWorld_ \/ ~s.world.applyingTransforms_
    THEN SetPosition(s, e, s.node[s.rb[e].node_].targetPos)
    ELSE s

HandleTargetRotation(s, e) ==
    IF ~s.rb[e].physicsWorld_ \/ ~s.world.applyingTransforms_
    THEN SetRotation(s, e, s.node[s.rb[e].node_].targetRot)
    ELSE s

\* SmoothedTransform::SetTargetWorldPosition / SetTargetWorldRotation: store
\* the target and send the target-changed event to the subscribed RigidBody
SetTargetWorldPosition(s, e, p) ==
    LET s1 == [s EXCEPT !.node[s.rb[e].node_].targetPos = p]
    IN  IF s.rb[e].hasSmoothedTransform_ THEN HandleTargetPosition(s1, e) ELSE s1

SetTargetWorldRotation(s, e, q) ==
    LET s1 == [s EXCEPT !.node[s.rb[e].node_].targetRot = q]
    IN  IF s.rb[e].hasSmoothedTransform_ THEN HandleTargetRotation(s1, e) ELSE s1

\* the last two statements of either branch of ApplyWorldTransform
RememberTarget(s, e, newWorldPosition, newWorldRotation) ==
    [s EXCEPT !.rb[e].lastPosition_ = newWorldPosition,
              !.rb[e].lastRotation_ = newWorldRotation]

\* faulty variant: the node is written but the caches keep their old values
RememberNodeTransform_Stale(s, e) == s

RememberNodeTransform(s, e) ==
    [s EXCEPT !.rb[e].lastPosition_ = NodeWorldPosition(s, s.rb[e].node_),
              !.rb[e].lastRotation_ = NodeWorldRotation(s, s.rb[e].node_)]

SetApplyingTransforms(s, enable) ==
    [s EXCEPT !.world.applyingTransforms_ = enable]

ApplyWorldTransform(s, e, newWorldPosition, newWorldRotation) ==
    SetApplyingTransforms(
        IF s.rb[e].hasSmoothedTransform_ /\ s.node[s.rb[e].node_].smoothed
        THEN RememberTarget(
                 SetTargetWorldRotation(
                     SetTargetWorldPosition(
                         Emit(SetApplyingTransforms(s, TRUE),
                              <<"ApplyWorldTransform", e>>),
                         e, newWorldPosition),
                     e, newWorldRotation),
                 e, newWorldPosition, newWorldRotation)
        ELSE RememberNodeTransform(
                 NodeSetWorldRotation(
                     NodeSetWorldPosition(
                         Emit(SetApplyingTransforms(s, TRUE),
                              <<"ApplyWorldTransform", e>>),
                         s.rb[e].node_, newWorldPosition),
                     s.rb[e].node_, newWorldRotation),
                 e),
        FALSE)

\* PhysicsWorld::AddDelayedWorldTransform: the queue is keyed by the child
AddDelayedWorldTransform(s, delayed) ==
    Emit([s EXCEPT !.world.delayedWorldTransforms_ =
              {d \in @ : d.rigidBody_ # delayed.rigidBody_} \cup {delayed}],
         <<"AddDelayedWorldTransform", delayed.rigidBody_>>)

\* Node::GetComponent<RigidBody> on the parent node
ParentRigidBodyOf(s, e) ==
    LET parent == s.node[s.rb[e].node_].parent
    IN  IF parent # NullPtr /\ parent # GetScene(s, e)
           /\ parent \in Nodes /\ s.rb[parent].node_ = parent
        THEN parent ELSE NullPtr

\* faulty variant: setWorldTransform that never defers
setWorldTransform_NoDelay(s, e, origin, rotation) ==
    LET newWorldRotation == rotation
        newWorldPosition ==
            VSub(origin, Rotate(newWorldRotation, s.rb[e].centerOfMass_))
    IN  IF s.rb[e].node_ # NullPtr
        THEN MarkNetworkUpdate(
                 ApplyWorldTransform(s, e, newWorldPosition, newWorldRotation), e)
        ELSE s

\* faulty variant: setWorldTransform without MarkNetworkUpdate
setWorldTransform_NoNetworkUpdate(s, e, origin, rotation) ==
    LET newWorldRotation == rotation
        newWorldPosition ==
            VSub(origin, Rotate(newWorldRotation, s.rb[e].centerOfMass_))
        parentRigidBody == ParentRigidBodyOf(s, e)
    IN  IF s.rb[e].node_ # NullPtr
        THEN IF parentRigidBody = NullPtr
             THEN ApplyWorldTransform(s, e, newWorldPosition, newWorldRotation)
             ELSE AddDelayedWorldTransform(s,
                      [rigidBody_ |-> e,
                       parentRigidBody_ |-> parentRigidBody,
                       worldPosition_ |-> newWorldPosition,
                       worldRotation_ |-> newWorldRotation])
        ELSE s

\* faulty variant: setWorldTransform that ignores the center of mass
setWorldTransform_NoCenterOfMass(s, e, origin, rotation) ==
    LET newWorldRotation == rotation
        newWorldPosition == origin
        parentRigidBody == ParentRigidBodyOf(s, e)
    IN  IF s.rb[e].node_ # NullPtr
        THEN LET s1 ==
                   IF parentRigidBody = NullPtr
                   THEN ApplyWorldTransform(s, e, newWorldPosition,
                                            newWorldRotation)
                   ELSE AddDelayedWorldTransform(s,
                            [rigidBody_ |-> e,
                             parentRigidBody_ |-> parentRigidBody,
                             worldPosition_ |-> newWorldPosition,
                             worldRotation_ |-> newWorldRotation])
             IN  MarkNetworkUpdate(s1, e)
        ELSE s

\* btMotionState::setWorldTransform; worldTrans = (origin, rotation)
\* faulty variant: setWorldTransform that marks the network update although
\* the node is gone
setWorldTransform_MarksWithoutNode(s, e, origin, rotation) ==
    IF s.rb[e].node_ # NullPtr
    THEN MarkNetworkUpdate(
             IF ParentRigidBodyOf(s, e) = NullPtr
             THEN ApplyWorldTransform(
                      s, e,
                      VSub(origin, Rotate(rotation, s.rb[e].centerOfMass_)),
                      rotation)
             ELSE AddDelayedWorldTransform(s,
                      [rigidBody_ |-> e,
                       parentRigidBody_ |-> ParentRigidBodyOf(s, e),
                       worldPosition_ |->
                           VSub(origin,
                                Rotate(rotation, s.rb[e].centerOfMass_)),
                       worldRotation_ |-> rotation]),
             e)
    ELSE MarkNetworkUpdate(s, e)

setWorldTransform(s, e, origin, rotation) ==
    LET newWorldRotation == rotation
        newWorldPosition ==
            VSub(origin, Rotate(newWorldRotation, s.rb[e].centerOfMass_))
        parentRigidBody == ParentRigidBodyOf(s, e)
    IN  IF s.rb[e].node_ # NullPtr
        THEN LET s1 ==
                   IF parentRigidBody = NullPtr
                   THEN ApplyWorldTransform(s, e, newWorldPosition,
                                            newWorldRotation)
                   ELSE AddDelayedWorldTransform(s,
                            [rigidBody_ |-> e,
                             parentRigidBody_ |-> parentRigidBody,
                             worldPosition_ |-> newWorldPosition,
                             worldRotation_ |-> newWorldRotation])
             IN  MarkNetworkUpdate(s1, e)
        ELSE s

-----------------------------------------------------------------------------
\* Mass properties and gravity

RECURSIVE SumOrigins(_)
SumOrigins(children) ==
    IF children = <<>> THEN Zero
    ELSE VAdd(Head(children).pos, SumOrigins(Tail(children)))

\* btCompoundShape::calculatePrincipalAxisTransform with unit masses: the
\* origin of the principal transform is the mean of the child origins
PrincipalOrigin(children) ==
    IF Len(children) = 0 THEN Zero
    ELSE LET sum == SumOrigins(children)
         IN  <<sum[1] \div Len(children), sum[2] \div Len(children)>>

ShiftChildren(children, origin) ==
    [i \in 1..Len(children) |->
        [children[i] EXCEPT !.pos = VSub(children[i].pos, origin)]]

IsTriangleMesh(shape) == shape = "mesh"

\* the largest and the smallest first coordinate (i = 1) or second coordinate
\* (i = 2) of the child origins
RECURSIVE MaxOrigin(_, _)
MaxOrigin(children, i) ==
    IF Len(children) = 1 THEN Head(children).pos[i]
    ELSE Max(Head(children).pos[i], MaxOrigin(Tail(children), i))

RECURSIVE MinOrigin(_, _)
MinOrigin(children, i) ==
    IF Len(children) = 1 THEN Head(children).pos[i]
    ELSE -Max(-Head(children).pos[i], -MinOrigin(Tail(children), i))

\* the width of the bounding box of the children along axis i: every child
\* shape has unit size, an empty compound shape has an empty box
AabbWidth(children, i) ==
    IF Len(children) = 0 THEN 0
    ELSE MaxOrigin(children, i) - MinOrigin(children, i) + 1

\* the inertia of a box of the given widths, in units of 1/60:
\* mass / 12 * (ly^2 + lz^2, lx^2 + lz^2, lx^2 + ly^2)
BoxInertia(wx, wy, wz, mass) ==
    <<5 * mass * (wy * wy + wz * wz),
      5 * mass * (wx * wx + wz * wz),
      5 * mass * (wx * wx + wy * wy)>>

\* btCollisionShape::calculateLocalInertia in units of 1/60: a unit box gives
\* mass / 6, a sphere of unit diameter 2/5 * mass * r^2 = mass / 10, a
\* triangle mesh zero, and a compound shape the inertia of its bounding box
LocalInertia(shape, children, mass) ==
    IF shape = "box" THEN BoxInertia(1, 1, 1, mass)
    ELSE IF shape = "sphere" THEN <<6 * mass, 6 * mass, 6 * mass>>
    ELSE IF shape = "mesh" THEN <<0, 0, 0>>
    ELSE IF Len(children) = 0 THEN <<0, 0, 0>>
    ELSE BoxInertia(AabbWidth(children, 1), AabbWidth(children, 2), 1, mass)

\* the children of the compound shape, shifted to the center of mass
ShiftedChildren(children) ==
    ShiftChildren(children, PrincipalOrigin(children))

\* useCompound of UpdateMass, decided on the shifted children
UseCompound(shifted) ==
    \/ Len(shifted) = 0
    \/ Len(shifted) > 1
    \/ shifted[1].pos # Zero
    \/ shifted[1].rot # IDENTITY

\* faulty variant: the body always gets the shifted compound shape
ExposedShape_AlwaysCompound(shifted) == "compound"

\* the shape handed to btRigidBody::setCollisionShape
ExposedShape(shifted) ==
    IF UseCompound(shifted) THEN "compound" ELSE shifted[1].shape

\* UpdateMass, first part: rebuild the shifted compound shape, expose either it
\* or its only child, and flag a triangle mesh for the internal edge utility
SetExposedShape(s, e, shifted) ==
    [s EXCEPT
        !.rb[e].shiftedCompoundShape_ = shifted,
        !.rb[e].bt.shape = ExposedShape(shifted),
        !.rb[e].bt.customMaterial =
            (~UseCompound(shifted) /\ IsTriangleMesh(shifted[1].shape)
             /\ s.world.internalEdge)]

\* faulty variant: the new center of mass is stored, the position is not
\* reapplied
Reposition_NoReapply(s, e, oldPosition, principal) ==
    [s EXCEPT !.rb[e].centerOfMass_ = principal]

\* UpdateMass, second part: store the new center of mass and reapply the
\* position the body had with the old one
Reposition(s, e, oldPosition, principal) ==
    SetPosition([s EXCEPT !.rb[e].centerOfMass_ = principal], e, oldPosition)

\* UpdateMass, third part: the inertia is always asked of the shifted compound
\* shape, whichever shape the body exposes
SetMassProps(s, e) ==
    [s EXCEPT
        !.rb[e].bt.mass = s.rb[e].mass_,
        !.rb[e].bt.inertia =
            IF s.rb[e].mass_ > 0
            THEN LocalInertia("compound", s.rb[e].shiftedCompoundShape_,
                              s.rb[e].mass_)
            ELSE <<0, 0, 0>>]

\* the constraints of a body in the order of their identifiers
RECURSIVE ConstraintSeq(_)
ConstraintSeq(cs) ==
    IF cs = {} THEN <<>>
    ELSE LET c == CHOOSE x \in cs : \A y \in cs : x <= y
         IN  <<c>> \o ConstraintSeq(cs \ {c})

\* UpdateMass, last part: Constraint::ApplyFrames of every attached
\* constraint, which reads the center of mass of the body
RECURSIVE ApplyFrames(_, _, _)
ApplyFrames(s, e, cs) ==
    IF cs = <<>> THEN s
    ELSE ApplyFrames(Emit(s, <<"ApplyFrames", Head(cs), s.rb[e].centerOfMass_>>),
                     e, Tail(cs))

UpdateConstraintFrames(s, e) ==
    IF s.rb[e].node_ # NullPtr
    THEN ApplyFrames(s, e, ConstraintSeq(s.rb[e].constraints_))
    ELSE s

UpdateMass(s, e) ==
    IF s.rb[e].body_ # NullPtr
    THEN UpdateConstraintFrames(
             SetMassProps(
                 Reposition(
                     SetExposedShape(s, e,
                                     ShiftedChildren(s.rb[e].compoundShape_)),
                     e, GetPosition(s, e),
                     PrincipalOrigin(s.rb[e].compoundShape_)),
                 e),
             e)
    ELSE s

\* faulty variant: UpdateGravity that ignores the gravity override
UpdateGravity_IgnoresOverride(s, e) ==
    IF s.rb[e].physicsWorld_ /\ s.rb[e].body_ # NullPtr
    THEN [s EXCEPT
            !.rb[e].bt.disableWorldGravity = ~s.rb[e].useGravity_,
            !.rb[e].bt.gravity =
                IF s.rb[e].useGravity_ THEN s.world.gravity ELSE Zero]
    ELSE s

UpdateGravity(s, e) ==
    IF s.rb[e].physicsWorld_ /\ s.rb[e].body_ # NullPtr
    THEN LET r == s.rb[e]
         IN  [s EXCEPT
                !.rb[e].bt.disableWorldGravity =
                    ~(r.useGravity_ /\ r.gravityOverride_ = Zero),
                !.rb[e].bt.gravity =
                    IF r.useGravity_
                    THEN IF r.gravityOverride_ = Zero
                         THEN s.world.gravity
                         ELSE r.gravityOverride_
                    ELSE Zero]
    ELSE s

-----------------------------------------------------------------------------
\* World membership

RemoveBodyFromWorld(s, e) ==
    IF s.rb[e].physicsWorld_ /\ s.rb[e].body_ # NullPtr /\ s.rb[e].inWorld_
    THEN [removeRigidBody(s, s.rb[e].body_) EXCEPT !.rb[e].inWorld_ = FALSE]
    ELSE s

\* CollisionShape::NotifyRigidBody(false) of every CollisionShape of the node:
\* each adds its shape to the compound shape, the mass is not updated yet
NotifyShapes(s, e) ==
    [s EXCEPT !.rb[e].compoundShape_ = s.node[s.rb[e].node_].shapes]

\* Constraint::CreateConstraint of every Constraint of the node: each
\* registers itself with the body (RigidBody::AddConstraint)
CreateConstraints(s, e) ==
    [s EXCEPT !.rb[e].constraints_ = @ \cup s.node[s.rb[e].node_].constraints]

\* the else branch of AddBodyToWorld: new btRigidBody(mass_, this, ...), whose
\* constructor reads the motion state (getWorldTransform); friction is in
\* units of 1/2, and a new btRigidBody has friction 0.5 and CCD radius 0
CreateBody(s, e) ==
    LET s1 == [s EXCEPT !.rb[e].body_ = s.nextBody,
                        !.nextBody = @ + 1,
                        !.rb[e].bt = [NoBody EXCEPT !.mass = s.rb[e].mass_,
                                                    !.active = TRUE,
                                                    !.shape = "compound",
                                                    !.friction = 1]]
        s2 == getWorldTransform(Emit(s1, <<"new btRigidBody", s.nextBody>>), e)
        s3 == IF s2.node[s2.rb[e].node_].smoothed
              THEN [s2 EXCEPT !.rb[e].hasSmoothedTransform_ = TRUE]
              ELSE s2
    IN  CreateConstraints(NotifyShapes(s3, e), e)

\* AddBodyToWorld, in the order of its statements: clamp the mass, remove or
\* create the body, update mass and gravity, set the collision flags, and
\* insert the body if the component is enabled
ClampMass(s, e) ==
    IF s.rb[e].mass_ < 0 THEN [s EXCEPT !.rb[e].mass_ = 0] ELSE s

\* faulty variant: an existing body is inserted again without being removed
RemoveOrCreateBody_NoRemove(s, e) ==
    IF s.rb[e].body_ # NullPtr THEN s ELSE CreateBody(s, e)

RemoveOrCreateBody(s, e) ==
    IF s.rb[e].body_ # NullPtr
    THEN RemoveBodyFromWorld(s, e)
    ELSE CreateBody(s, e)

SetCollisionFlags(s, e) ==
    [s EXCEPT !.rb[e].bt.noContactResponse = s.rb[e].phantom_,
              !.rb[e].bt.kinematic = s.rb[e].kinematic_]

WakeOrStop(s, e) ==
    IF s.rb[e].mass_ > 0
    THEN Activate(s, e)
    ELSE SetAngularVelocity(SetLinearVelocity(s, e, Zero), e, Zero)

\* faulty variant: the rebuild inserts the body of a disabled component too
InsertIfEnabled_Always(s, e) ==
    WakeOrStop(
        [addRigidBody(s, s.rb[e].body_, s.rb[e].collisionLayer_,
                      s.rb[e].collisionMask_)
            EXCEPT !.rb[e].inWorld_ = TRUE,
                   !.rb[e].readdBody_ = FALSE],
        e)

InsertIfEnabled(s, e) ==
    IF ~IsEnabledEffective(s, e) THEN s
    ELSE WakeOrStop(
             [addRigidBody(s, s.rb[e].body_, s.rb[e].collisionLayer_,
                           s.rb[e].collisionMask_)
                 EXCEPT !.rb[e].inWorld_ = TRUE,
                        !.rb[e].readdBody_ = FALSE],
             e)

AddBodyToWorld_Body(s, e) ==
    InsertIfEnabled(
        SetCollisionFlags(
            UpdateGravity(
                UpdateMass(
                    RemoveOrCreateBody(
                        ClampMass(Emit(s, <<"AddBodyToWorld", e>>), e),
                        e),
                    e),
                e),
            e),
        e)

\* faulty variant: AddBodyToWorld without the physics world test
AddBodyToWorld_NoWorldCheck(s, e) == AddBodyToWorld_Body(s, e)

\* faulty variant: AddBodyToWorld that zeroes the velocities of every body
AddBodyToWorld_ResetsMotion(s, e) ==
    IF ~s.rb[e].physicsWorld_ THEN s
    ELSE LET t == AddBodyToWorld_Body(s, e)
         IN  [t EXCEPT !.rb[e].bt.linVel = Zero, !.rb[e].bt.angVel = Zero]

AddBodyToWorld(s, e) ==
    IF ~s.rb[e].physicsWorld_ THEN s ELSE AddBodyToWorld_Body(s, e)

AddConstraint(s, e, c) ==
    [s EXCEPT !.rb[e].constraints_ = @ \cup {c}]

\* faulty variant: RemoveConstraint that leaves the activation state alone
RemoveConstraint_NoActivate(s, e, c) ==
    [s EXCEPT !.rb[e].constraints_ = @ \ {c}]

RemoveConstraint(s, e, c) ==
    Activate([s EXCEPT !.rb[e].constraints_ = @ \ {c}], e)

\* Constraint::ReleaseConstraint of every constraint of the copied list: each
\* deletes its Bullet constraint and unregisters itself from the body
RECURSIVE ReleaseConstraints(_, _, _)
ReleaseConstraints(s, e, cs) ==
    IF cs = <<>> THEN s
    ELSE ReleaseConstraints(
             RemoveConstraint(Emit(s, <<"ReleaseConstraint", Head(cs)>>),
                              e, Head(cs)),
             e, Tail(cs))

\* the tail of ReleaseBody: delete body_; body_ = 0
DeleteBody(s, e) ==
    Emit([s EXCEPT !.rb[e].body_ = NullPtr, !.rb[e].bt = NoBody],
         <<"delete body_", s.rb[e].body_>>)

\* faulty variant: ReleaseBody that deletes the body while it is registered
ReleaseBody_NoRemove(s, e) ==
    IF s.rb[e].body_ # NullPtr
    THEN DeleteBody(
             ReleaseConstraints(s, e, ConstraintSeq(s.rb[e].constraints_)), e)
    ELSE s

\* faulty variant: ReleaseBody that deletes the body before it releases the
\* constraints
ReleaseBody_ConstraintsLast(s, e) ==
    IF s.rb[e].body_ # NullPtr
    THEN ReleaseConstraints(
             DeleteBody(RemoveBodyFromWorld(s, e), e),
             e, ConstraintSeq(s.rb[e].constraints_))
    ELSE s

ReleaseBody(s, e) ==
    IF s.rb[e].body_ # NullPtr
    THEN DeleteBody(
             RemoveBodyFromWorld(
                 ReleaseConstraints(s, e, ConstraintSeq(s.rb[e].constraints_)),
                 e),
             e)
    ELSE s

\* ~RigidBody: release the body, leave the physics world's component list,
\* and delete the two compound shapes
Destructor(s, e) ==
    Emit(Emit([ReleaseBody(s, e) EXCEPT
                   !.world.rigidBodies =
                       IF s.rb[e].physicsWorld_ THEN @ \ {e} ELSE @],
              <<"delete compoundShape_", e>>),
         <<"delete shiftedCompoundShape_", e>>)

ReAddBodyToWorld(s, e) ==
    IF s.rb[e].body_ # NullPtr /\ s.rb[e].inWorld_
    THEN AddBodyToWorld(s, e)
    ELSE s

\* faulty variant: OnSetEnabled that never removes the body
OnSetEnabled_NoRemoval(s, e) ==
    IF IsEnabledEffective(s, e) /\ ~s.rb[e].inWorld_
    THEN AddBodyToWorld(s, e)
    ELSE s

OnSetEnabled(s, e) ==
    LET enabled == IsEnabledEffective(s, e)
    IN  IF enabled /\ ~s.rb[e].inWorld_ THEN AddBodyToWorld(s, e)
        ELSE IF ~enabled /\ s.rb[e].inWorld_ THEN RemoveBodyFromWorld(s, e)
        ELSE s

\* Component::SetEnabled
SetEnabled(s, e, enable) ==
    MarkNetworkUpdate(OnSetEnabled([s EXCEPT !.rb[e].enabled_ = enable], e), e)

OnNodeSet(s, e, n) ==
    IF n # NullPtr
    THEN IF GetScene(s, e) # NullPtr
         THEN LET s1 == [s EXCEPT !.rb[e].physicsWorld_ = s.world.exists]
                  s2 == IF s1.rb[e].physicsWorld_
                        THEN [s1 EXCEPT !.world.rigidBodies = @ \cup {e}]
                        ELSE Emit(s1, <<"LOGERROR", e>>)
              IN  AddBodyToWorld(s2, e)
         ELSE Emit(s, <<"LOGERROR", e>>)
    ELSE s

-----------------------------------------------------------------------------
\* Direct setters of the properties that have no live accessor

SetMass(s, e, mass) ==
    LET m == Max(mass, 0)
    IN  IF m # s.rb[e].mass_
        THEN MarkNetworkUpdate(
                 AddBodyToWorld([s EXCEPT !.rb[e].mass_ = m], e), e)
        ELSE s

SetKinematic(s, e, enable) ==
    IF enable # s.rb[e].kinematic_
    THEN MarkNetworkUpdate(
             AddBodyToWorld([s EXCEPT !.rb[e].kinematic_ = enable], e), e)
    ELSE s

SetPhantom(s, e, enable) ==
    IF enable # s.rb[e].phantom_
    THEN MarkNetworkUpdate(
             AddBodyToWorld([s EXCEPT !.rb[e].phantom_ = enable], e), e)
    ELSE s

SetCollisionLayer(s, e, layer) ==
    IF layer # s.rb[e].collisionLayer_
    THEN MarkNetworkUpdate(
             AddBodyToWorld([s EXCEPT !.rb[e].collisionLayer_ = layer], e), e)
    ELSE s

SetCollisionMask(s, e, mask) ==
    IF mask # s.rb[e].collisionMask_
    THEN MarkNetworkUpdate(
             AddBodyToWorld([s EXCEPT !.rb[e].collisionMask_ = mask], e), e)
    ELSE s

SetCollisionLayerAndMask(s, e, layer, mask) ==
    IF layer # s.rb[e].collisionLayer_ \/ mask # s.rb[e].collisionMask_
    THEN MarkNetworkUpdate(
             AddBodyToWorld([s EXCEPT !.rb[e].collisionLayer_ = layer,
                                      !.rb[e].collisionMask_ = mask], e), e)
    ELSE s

-----------------------------------------------------------------------------
\* Attribute path

\* the attributes registered with ATTRIBUTE (no accessor), and their values
NonAccessorAttributes ==
    {"Mass", "Collision Layer", "Collision Mask", "Is Kinematic", "Is Phantom"}

AttributeValues(attr) ==
    CASE attr = "Mass" -> Masses
      [] attr = "Collision Layer" -> Layers
      [] attr = "Collision Mask" -> Masks
      [] attr = "Is Kinematic" -> BOOLEAN
      [] attr = "Is Phantom" -> BOOLEAN

\* Serializable::OnSetAttribute for an attribute without accessor: the value
\* is stored into the member
StoreAttribute(s, e, attr, value) ==
    CASE attr = "Mass" -> [s EXCEPT !.rb[e].mass_ = value]
      [] attr = "Collision Layer" -> [s EXCEPT !.rb[e].collisionLayer_ = value]
      [] attr = "Collision Mask" -> [s EXCEPT !.rb[e].collisionMask_ = value]
      [] attr = "Is Kinematic" -> [s EXCEPT !.rb[e].kinematic_ = value]
      [] attr = "Is Phantom" -> [s EXCEPT !.rb[e].phantom_ = value]

\* faulty variant: OnSetAttribute that rebuilds at once
OnSetAttribute_Rebuilds(s, e, attr, value) ==
    AddBodyToWorld(StoreAttribute(s, e, attr, value), e)

\* faulty variant: OnSetAttribute that stores the value without scheduling
\* the re-add
OnSetAttribute_NoReadd(s, e, attr, value) ==
    StoreAttribute(s, e, attr, value)

OnSetAttribute(s, e, attr, value) ==
    LET s1 == StoreAttribute(s, e, attr, value)
    IN  IF attr \in NonAccessorAttributes
        THEN [s1 EXCEPT !.rb[e].readdBody_ = TRUE]
        ELSE s1

ApplyAttributes(s, e) ==
    IF s.rb[e].readdBody_ THEN AddBodyToWorld(s, e) ELSE s

-----------------------------------------------------------------------------
\* Initial states

NoShapes == <<>>
OffsetBox == <<[shape |-> "box", pos |-> <<1, 0>>, rot |-> IDENTITY]>>

NodeCtor ==
    [parent |-> SceneRoot, pos |-> Zero, rot |-> IDENTITY,
     smoothed |-> FALSE, targetPos |-> Zero, targetRot |-> IDENTITY,
     shapes |-> NoShapes, constraints |-> {}]

PhysicsWorldCtor ==
    [exists |-> TRUE, bodies |-> <<>>, rigidBodies |-> {},
     applyingTransforms_ |-> FALSE, delayedWorldTransforms_ |-> {},
     gravity |-> <<0, -1>>, internalEdge |-> TRUE,
     stepping |-> FALSE, pending |-> {}, synced |-> {}]

SceneCtor == [threadedUpdate |-> FALSE, delayedDirty |-> {}]

\* a scene with or without a PhysicsWorld component; two nodes under the
\* scene root, the RigidBody components constructed and not yet attached
Init ==
    /\ rb = [e \in RigidBodies |-> RigidBodyCtor]
    /\ node = [n \in Nodes |-> [NodeCtor EXCEPT !.shapes = OffsetBox]]
    /\ \E exists \in BOOLEAN : world = [PhysicsWorldCtor EXCEPT !.exists = exists]
    /\ scene = SceneCtor
    /\ nextBody = 1
    /\ trace = <<>>

-----------------------------------------------------------------------------
\* Actions: one per operation on a component

\* Node::AddComponent: Component::SetNode, then OnNodeSet
Attach(e) ==
    /\ rb[e].node_ = NullPtr
    /\ Commit(OnNodeSet([Begin EXCEPT !.rb[e].node_ = e], e, e))

CallSetEnabled(e) ==
    /\ e \in RigidBodies
    /\ \E enable \in BOOLEAN :
           Commit(SetEnabled(Begin, e, enable))

CallSetMass(e) ==
    /\ e \in RigidBodies
    /\ \E mass \in Masses : Commit(SetMass(Begin, e, mass))

CallSetKinematic(e) ==
    /\ e \in RigidBodies
    /\ \E enable \in BOOLEAN :
           Commit(SetKinematic(Begin, e, enable))

CallSetPhantom(e) ==
    /\ e \in RigidBodies
    /\ \E enable \in BOOLEAN : Commit(SetPhantom(Begin, e, enable))

CallSetCollisionLayer(e) ==
    /\ e \in RigidBodies
    /\ \E layer \in Layers :
           Commit(SetCollisionLayer(Begin, e, layer))

CallSetCollisionMask(e) ==
    /\ e \in RigidBodies
    /\ \E mask \in Masks :
           Commit(SetCollisionMask(Begin, e, mask))

CallSetCollisionLayerAndMask(e) ==
    /\ e \in RigidBodies
    /\ \E layer \in Layers, mask \in Masks :
           Commit(SetCollisionLayerAndMask(Begin,
                                           e, layer, mask))

EditAttribute(e) ==
    /\ e \in RigidBodies
    /\ \E attr \in NonAccessorAttributes :
           \E value \in AttributeValues(attr) :
               Commit(OnSetAttribute(Begin, e, attr, value))

RebuildIfNeeded(e) ==
    /\ e \in RigidBodies
    /\ Commit(ApplyAttributes(Begin, e))

CallReAddBodyToWorld(e) ==
    /\ e \in RigidBodies
    /\ Commit(ReAddBodyToWorld(Begin, e))

CallReleaseBody(e) ==
    /\ nextBody <= MaxBodies
    /\ Commit(ReleaseBody(Begin, e))

CallSetLinearVelocity(e) ==
    /\ e \in RigidBodies
    /\ \E v \in Velocities :
           Commit(SetLinearVelocity(Begin, e, v))

CallSetAngularVelocity(e) ==
    /\ e \in RigidBodies
    /\ \E v \in Velocities :
           Commit(SetAngularVelocity(Begin, e, v))

\* the solver puts a resting body of the world to sleep
SimDeactivate(e) ==
    /\ rb[e].inWorld_
    /\ rb[e].bt.active
    /\ Commit([Begin EXCEPT !.rb[e].bt.active = FALSE])

Next ==
    \E e \in {ChildBody} :
        \/ Attach(e)
        \/ CallSetEnabled(e)
        \/ CallSetMass(e)
        \/ CallSetKinematic(e)
        \/ CallSetPhantom(e)
        \/ CallSetCollisionLayer(e)
        \/ CallSetCollisionMask(e)
        \/ CallSetCollisionLayerAndMask(e)
        \/ EditAttribute(e)
        \/ RebuildIfNeeded(e)
        \/ CallReAddBodyToWorld(e)
        \/ CallReleaseBody(e)

Spec == Init /\ [][Next]_vars

-----------------------------------------------------------------------------
\* Claims on world membership (checked under Spec)

Registered(w, id) == Registrations(w, id) # {}
Rebuilt(s, e) == CalledIn(s.trace, "AddBodyToWorld", e)
Removed(s, id) == CalledIn(s.trace, "removeRigidBody", id)

\* C1: in every reachable state, inWorld_ implies that body_ is non-null and
\* registered in the world, and every body registered in the world is the
\* live body of a component (no body is freed while still registered).
C1_InWorldImpliesRegistered ==
    /\ \A e \in RigidBodies :
           rb[e].inWorld_ =>
               rb[e].body_ # NullPtr /\ Registered(world, rb[e].body_)
    /\ \A i \in 1..Len(world.bodies) :
           \E e \in RigidBodies : rb[e].body_ = world.bodies[i].id

\* a body was released while in the world, and its successor is in the world
C1_Witness ==
    /\ rb[ChildBody].inWorld_
    /\ rb[ChildBody].body_ = 2
    /\ Registered(world, 2)

\* C7: SetEnabled(false) on an InWorld component removes the body from the
\* world and keeps the constructed body; SetEnabled(true) on a component that
\* is not InWorld and has a physics world rebuilds and ends InWorld; a
\* SetEnabled that does not change the enabled/membership relation neither
\* removes nor rebuilds.
C7_SetEnabled ==
    \A e \in RigidBodies :
        LET off == SetEnabled(Begin, e, FALSE)
            on  == SetEnabled(Begin, e, TRUE)
        IN  /\ rb[e].inWorld_ =>
                /\ ~off.rb[e].inWorld_
                /\ off.rb[e].body_ = rb[e].body_
                /\ off.rb[e].body_ # NullPtr
                /\ off.rb[e].bt = rb[e].bt
                /\ ~Registered(off.world, rb[e].body_)
                /\ ~Rebuilt(off, e)
            /\ (~rb[e].inWorld_ /\ rb[e].physicsWorld_) =>
                /\ Rebuilt(on, e)
                /\ on.rb[e].inWorld_
                /\ on.rb[e].body_ # NullPtr
                /\ Registered(on.world, on.rb[e].body_)
            /\ rb[e].inWorld_ =>
                /\ ~Rebuilt(on, e)
                /\ on.rb = rb /\ on.world = world
            /\ ~rb[e].inWorld_ =>
                /\ ~Rebuilt(off, e)
                /\ off.world = world
                /\ off.rb = [rb EXCEPT ![e].enabled_ = FALSE]

\* SetEnabled(false) has just removed the body of an InWorld component
C7_Witness ==
    /\ ~rb[ChildBody].enabled_
    /\ rb[ChildBody].body_ # NullPtr
    /\ ~rb[ChildBody].inWorld_
    /\ trace = <<<<"removeRigidBody", rb[ChildBody].body_>>,
                 <<"MarkNetworkUpdate", ChildBody>>>>

\* C8: attaching to a node of a scene without physics world logs an error
\* and creates no body, and a component attached without a physics world
\* has no body and is not in the world in any later state.
C8_InertWithoutWorld ==
    \A e \in RigidBodies :
        /\ (rb[e].node_ = NullPtr /\ ~world.exists) =>
               LET t == OnNodeSet([Begin EXCEPT !.rb[e].node_ = e], e, e)
               IN  /\ CalledIn(t.trace, "LOGERROR", e)
                   /\ t.rb[e].body_ = NullPtr
                   /\ ~t.rb[e].inWorld_
        /\ (rb[e].node_ # NullPtr /\ ~rb[e].physicsWorld_) =>
               /\ rb[e].body_ = NullPtr
               /\ ~rb[e].inWorld_
               /\ rb[e].bt = NoBody
               /\ world.bodies = <<>>

\* an inert component after attribute edits, a direct setter and SetEnabled
C8_Witness ==
    /\ rb[ChildBody].node_ # NullPtr
    /\ ~rb[ChildBody].physicsWorld_
    /\ rb[ChildBody].readdBody_
    /\ rb[ChildBody].kinematic_
    /\ rb[ChildBody].mass_ = 1
    /\ ~rb[ChildBody].enabled_

\* C9 as claimed: an attribute edit of a property without accessor sets
\* readdBody_ and touches neither body nor membership; ApplyAttributes
\* rebuilds iff readdBody_ is set, and after that rebuild readdBody_ is
\* false; a direct setter given a changed value rebuilds at once.
C9_AttributeEdit(e) ==
    \A attr \in NonAccessorAttributes :
        \A value \in AttributeValues(attr) :
            LET a == OnSetAttribute(Begin, e, attr, value)
            IN  /\ a.rb[e].readdBody_
                /\ a.rb[e].bt = rb[e].bt
                /\ a.rb[e].body_ = rb[e].body_
                /\ a.rb[e].inWorld_ = rb[e].inWorld_
                /\ a.world = world
                /\ ~Rebuilt(a, e)

C9_DirectSetter(e) ==
    /\ \A mass \in Masses :
           (Max(mass, 0) # rb[e].mass_ /\ rb[e].physicsWorld_) =>
               Rebuilt(SetMass(Begin, e, mass), e)
    /\ \A enable \in BOOLEAN :
           /\ (enable # rb[e].kinematic_ /\ rb[e].physicsWorld_) =>
                  Rebuilt(SetKinematic(Begin, e, enable), e)
           /\ (enable # rb[e].phantom_ /\ rb[e].physicsWorld_) =>
                  Rebuilt(SetPhantom(Begin, e, enable), e)
    /\ \A layer \in Layers :
           (layer # rb[e].collisionLayer_ /\ rb[e].physicsWorld_) =>
               Rebuilt(SetCollisionLayer(Begin, e, layer), e)
    /\ \A mask \in Masks :
           (mask # rb[e].collisionMask_ /\ rb[e].physicsWorld_) =>
               Rebuilt(SetCollisionMask(Begin, e, mask), e)

-----------------------------------------------------------------------------
\* Motion state across rebuilds (checked under SpecMotion)

EditFilterAttribute(e) ==
    /\ e \in RigidBodies
    /\ \E attr \in {"Mass", "Collision Layer", "Collision Mask"} :
           \E value \in AttributeValues(attr) :
               Commit(OnSetAttribute(Begin, e, attr, value))

NextMotion ==
    \E e \in {ChildBody} :
        \/ Attach(e)
        \/ CallSetEnabled(e)
        \/ CallSetMass(e)
        \/ CallSetCollisionLayer(e)
        \/ CallSetCollisionMask(e)
        \/ CallSetCollisionLayerAndMask(e)
        \/ EditFilterAttribute(e)
        \/ RebuildIfNeeded(e)
        \/ CallSetLinearVelocity(e)
        \/ CallSetAngularVelocity(e)
        \/ SimDeactivate(e)

SpecMotion == Init /\ [][NextMotion]_vars

\* the results of every way to change the collision layer and/or mask
FilterChanges(e) ==
    {SetCollisionLayer(Begin, e, layer) : layer \in Layers}
    \cup {SetCollisionMask(Begin, e, mask) : mask \in Masks}
    \cup {SetCollisionLayerAndMask(Begin, e, layer, mask) :
              layer \in Layers, mask \in Masks}
    \cup {ApplyAttributes(OnSetAttribute(Begin, e, "Collision Layer", layer), e) :
              layer \in Layers}
    \cup {ApplyAttributes(OnSetAttribute(Begin, e, "Collision Mask", mask), e) :
              mask \in Masks}

LiveInWorld(e) == rb[e].body_ # NullPtr /\ rb[e].inWorld_

\* C10 as claimed: changing the collision layer and/or mask of a live
\* in-world body leaves its linear velocity, angular velocity and
\* active/sleeping state as they were, for every mass.
C10_Original ==
    \A e \in RigidBodies :
        LiveInWorld(e) =>
            \A t \in FilterChanges(e) :
                /\ t.rb[e].bt.linVel = rb[e].bt.linVel
                /\ t.rb[e].bt.angVel = rb[e].bt.angVel
                /\ t.rb[e].bt.active = rb[e].bt.active

\* C10 as amended: a change that rebuilds the body leaves both velocities as
\* they were and leaves the body awake when the mass at the rebuild is
\* positive, and sets both velocities to zero when that mass is zero; a
\* change that sets the values already held rebuilds nothing and leaves the
\* motion state as it was.
C10_Amended ==
    \A e \in RigidBodies :
        LiveInWorld(e) =>
            \A t \in FilterChanges(e) :
                IF Rebuilt(t, e)
                THEN IF t.rb[e].mass_ > 0
                     THEN /\ t.rb[e].bt.linVel = rb[e].bt.linVel
                          /\ t.rb[e].bt.angVel = rb[e].bt.angVel
                          /\ t.rb[e].bt.active
                     ELSE /\ t.rb[e].bt.linVel = Zero
                          /\ t.rb[e].bt.angVel = Zero
                ELSE t.rb[e].bt = rb[e].bt

\* a moving body of positive mass was re-inserted with a changed layer
C10_Witness ==
    /\ LiveInWorld(ChildBody)
    /\ rb[ChildBody].mass_ = 1
    /\ rb[ChildBody].bt.linVel # Zero
    /\ rb[ChildBody].bt.angVel # Zero
    /\ rb[ChildBody].collisionLayer_ = 2
    /\ \E i \in 1..Len(world.bodies) :
           world.bodies[i] =
               [id |-> rb[ChildBody].body_, layer |-> 2,
                mask |-> rb[ChildBody].collisionMask_]
    /\ Called("AddBodyToWorld", ChildBody)

-----------------------------------------------------------------------------
\* The simulation step and the scene update (checked under SpecXform)

\* PhysicsWorld: after the step's callbacks, the delayed world transforms are
\* applied, an entry only once its parent has no entry of its own left
RECURSIVE ApplyDelayedWorldTransforms(_)
ApplyDelayedWorldTransforms(s) ==
    LET queue == s.world.delayedWorldTransforms_
        ready == {d \in queue :
                     \A o \in queue : o.rigidBody_ # d.parentRigidBody_}
    IN  IF ready = {} THEN s
        ELSE LET d == CHOOSE x \in ready :
                          \A y \in ready : x.rigidBody_ <= y.rigidBody_
                 s1 == ApplyWorldTransform(s, d.rigidBody_, d.worldPosition_,
                                           d.worldRotation_)
             IN  ApplyDelayedWorldTransforms(
                     [s1 EXCEPT !.world.delayedWorldTransforms_ = @ \ {d}])

\* Scene::EndThreadedUpdate: leave the threaded phase, then deliver the
\* delayed dirty notifications
RECURSIVE DeliverDelayedDirty(_, _)
DeliverDelayedDirty(s, seq) ==
    IF seq = <<>> THEN s
    ELSE DeliverDelayedDirty(
             IF Head(seq) \in s.scene.delayedDirty
             THEN NotifyMarkedDirty(s, Head(seq)) ELSE s,
             Tail(seq))

SceneEndThreadedUpdate(s) ==
    LET s1 == [s EXCEPT !.scene.threadedUpdate = FALSE]
        s2 == DeliverDelayedDirty(s1, <<ParentBody, ChildBody>>)
    IN  [s2 EXCEPT !.scene.delayedDirty = {}]

\* the child node hangs under the scene root, with or without a
\* SmoothedTransform component, or under the parent node
ChildSetups == {<<SceneRoot, FALSE>>, <<SceneRoot, TRUE>>, <<ParentBody, FALSE>>}

\* both components got mass 1 before they are attached, so that their bodies
\* are dynamic and the simulation reports their motion
InitXform ==
    /\ rb = [e \in RigidBodies |-> [RigidBodyCtor EXCEPT !.mass_ = 1]]
    /\ \E setup \in ChildSetups :
           node = [n \in Nodes |->
                      IF n = ChildBody
                      THEN [NodeCtor EXCEPT !.parent = setup[1],
                                            !.smoothed = setup[2],
                                            !.shapes = OffsetBox]
                      ELSE NodeCtor]
    /\ world = PhysicsWorldCtor
    /\ scene = SceneCtor
    /\ nextBody = 1
    /\ trace = <<>>

Idle == ~world.stepping /\ ~scene.threadedUpdate

AttachIdle(e) == Idle /\ Attach(e)

\* PhysicsWorld::Update starts a step: every body of the world is due for
\* its motion-state callback
BeginStep ==
    /\ Idle
    /\ Commit([Begin EXCEPT
                 !.world.stepping = TRUE,
                 !.world.pending = {e \in RigidBodies : rb[e].inWorld_},
                 !.world.synced = {}])

\* the solver has moved body e to (origin, rotation) and reports it
SyncMotionState(e) ==
    /\ world.stepping
    /\ e \in world.pending
    /\ \E origin \in Positions, rotation \in Rotations :
           Commit(setWorldTransform(
                      [Begin EXCEPT !.rb[e].bt.pos = origin,
                                    !.rb[e].bt.rot = rotation,
                                    !.world.pending = @ \ {e},
                                    !.world.synced = @ \cup {e}],
                      e, origin, rotation))

\* the solver did not move body e in this step
SkipMotionState(e) ==
    /\ world.stepping
    /\ e \in world.pending
    /\ Commit([Begin EXCEPT !.world.pending = @ \ {e}])

EndStep ==
    /\ world.stepping
    /\ world.pending = {}
    /\ Commit([ApplyDelayedWorldTransforms(
                    Emit(Begin, <<"EndStep", Cardinality(world.synced)>>))
                  EXCEPT !.world.stepping = FALSE, !.world.synced = {}])

\* scene code other than physics moves or turns a node
MoveNode(n) ==
    /\ ~world.stepping
    /\ \E p \in Positions : Commit(NodeSetWorldPosition(Begin, n, p))

RotateNode(n) ==
    /\ ~world.stepping
    /\ \E q \in Rotations : Commit(NodeSetWorldRotation(Begin, n, q))

BeginThreadedUpdate ==
    /\ Idle
    /\ Commit([Begin EXCEPT !.scene.threadedUpdate = TRUE])

EndThreadedUpdate ==
    /\ scene.threadedUpdate
    /\ Commit(SceneEndThreadedUpdate(Emit(Begin, <<"EndThreadedUpdate", 0>>)))

NextXform ==
    \/ \E e \in RigidBodies : AttachIdle(e)
    \/ BeginStep
    \/ \E e \in RigidBodies : SyncMotionState(e)
    \/ \E e \in RigidBodies : SkipMotionState(e)
    \/ EndStep
    \/ \E n \in Nodes : MoveNode(n)
    \/ RotateNode(ChildBody)
    \/ BeginThreadedUpdate
    \/ EndThreadedUpdate

SpecXform == InitXform /\ [][NextXform]_vars

-----------------------------------------------------------------------------
\* Claims on the transform bridge (checked under SpecXform)

NodeTransform(s, n) == <<NodeWorldPosition(s, n), NodeWorldRotation(s, n)>>
LastKnown(s, e) == <<s.rb[e].lastPosition_, s.rb[e].lastRotation_>>
SmoothingActive(s, e) ==
    s.rb[e].hasSmoothedTransform_ /\ s.node[s.rb[e].node_].smoothed

\* C2: setWorldTransform on a component whose parent node is not the scene
\* root and carries a RigidBody changes neither the node transforms nor the
\* lastPosition_/lastRotation_ caches and leaves exactly one delayed entry
\* (this component, parent body, node-space position, rotation) for it;
\* otherwise the transform is applied within the call and nothing is
\* enqueued; both ways MarkNetworkUpdate is called.
C2_WriteTransformFromSimulation ==
    \A e \in RigidBodies :
        (world.stepping /\ e \in world.pending /\ rb[e].node_ # NullPtr) =>
            \A origin \in Positions, rotation \in Rotations :
                LET t == setWorldTransform(Begin, e, origin, rotation)
                    p == VSub(origin, Rotate(rotation, rb[e].centerOfMass_))
                    parentRigidBody == ParentRigidBodyOf(State, e)
                    own == {d \in t.world.delayedWorldTransforms_ :
                                d.rigidBody_ = e}
                IN  /\ CalledIn(t.trace, "MarkNetworkUpdate", e)
                    /\ IF parentRigidBody # NullPtr
                       THEN /\ t.node = node
                            /\ LastKnown(t, e) = LastKnown(State, e)
                            /\ own = {[rigidBody_ |-> e,
                                       parentRigidBody_ |-> parentRigidBody,
                                       worldPosition_ |-> p,
                                       worldRotation_ |-> rotation]}
                            /\ t.world.delayedWorldTransforms_ \ own =
                                   {d \in world.delayedWorldTransforms_ :
                                        d.rigidBody_ # e}
                            /\ ~CalledIn(t.trace, "ApplyWorldTransform", e)
                       ELSE /\ t.world.delayedWorldTransforms_ =
                                   world.delayedWorldTransforms_
                            /\ CalledIn(t.trace, "ApplyWorldTransform", e)
                            /\ LastKnown(t, e) = <<p, rotation>>
                            /\ IF SmoothingActive(State, e)
                               THEN /\ t.node[e].targetPos = p
                                    /\ t.node[e].targetRot = rotation
                               ELSE NodeTransform(t, e) = <<p, rotation>>

\* the child's write was deferred while the parent's write is still to come
C2_Witness ==
    /\ world.stepping
    /\ ParentBody \in world.pending
    /\ \E d \in world.delayedWorldTransforms_ :
           /\ d.rigidBody_ = ChildBody
           /\ d.parentRigidBody_ = ParentBody
           /\ d.worldPosition_ # NodeWorldPosition(State, ChildBody)
    /\ Called("AddDelayedWorldTransform", ChildBody)
    /\ Called("MarkNetworkUpdate", ChildBody)

\* C3: at the end of a step in which the simulation wrote both the parent's
\* and the child's transform, in either order, the child's node has the world
\* transform the simulation wrote for the child (its body's position less
\* the rotated center of mass, and its rotation), and so has the parent's.
C3_ChildAgainstNewParent ==
    (Len(trace) > 0 /\ trace[1] = <<"EndStep", 2>>
     /\ ParentRigidBodyOf(State, ChildBody) = ParentBody) =>
        \A e \in RigidBodies :
            ~SmoothingActive(State, e) =>
                /\ NodeTransform(State, e) =
                       <<GetPosition(State, e), GetRotation(State, e)>>
                /\ LastKnown(State, e) = NodeTransform(State, e)

\* a step has ended in which the parent moved and the child was written too
C3_Witness ==
    /\ Len(trace) > 0 /\ trace[1] = <<"EndStep", 2>>
    /\ ParentRigidBodyOf(State, ChildBody) = ParentBody
    /\ CalledIn(trace, "ApplyWorldTransform", ChildBody)
    /\ NodeWorldPosition(State, ParentBody) # Zero
    /\ NodeWorldRotation(State, ParentBody) # IDENTITY
    /\ node[ChildBody].pos # NodeWorldPosition(State, ChildBody)

\* the deliveries of the dirty notification logged by the last step
IsDelivery(call) == Len(call) = 7 /\ call[1] = "OnMarkedDirty"
Deliveries == {i \in 1..Len(trace) : IsDelivery(trace[i])}
WhileApplying(i) == trace[i][3]
WhileSmoothing(i) == trace[i][4]
WhileThreaded(i) == trace[i][5]
ChangedBodyOrWorld(i) == trace[i][6]
EnteredDelayedQueue(i) == trace[i][7]

\* C4: a dirty notification delivered while the world is applying transforms
\* or while the component has a smoothed transform changes neither the body
\* nor the lastPosition_/lastRotation_ caches nor the world, and enqueues
\* nothing.
C4_DirtyIgnored ==
    /\ \A i \in Deliveries :
           (WhileApplying(i) \/ WhileSmoothing(i)) =>
               ~ChangedBodyOrWorld(i) /\ ~EnteredDelayedQueue(i)
    /\ \A e \in RigidBodies :
           (rb[e].node_ # NullPtr /\ rb[e].hasSmoothedTransform_) =>
               OnMarkedDirty(State, e) = State

\* a write of the simulation moved a node and its listener was notified
\* while the transform was being applied
C4_Witness ==
    \E i \in Deliveries :
        /\ WhileApplying(i)
        /\ ~WhileSmoothing(i)
        /\ trace[i][2] = ChildBody
        /\ NodeWorldPosition(State, ChildBody) # Zero
        /\ Called("ApplyWorldTransform", ChildBody)

\* C5 as stated: every dirty notification delivered in the threaded-update
\* phase leaves body and caches alone and puts the component into the
\* scene's delayed queue.
C5_Original ==
    \A i \in Deliveries :
        WhileThreaded(i) =>
            /\ ~ChangedBodyOrWorld(i)
            /\ trace[i][2] \in scene.delayedDirty

QueuedOrIgnored ==
    \A i \in Deliveries :
        WhileThreaded(i) =>
            /\ ~ChangedBodyOrWorld(i)
            /\ IF WhileApplying(i) \/ WhileSmoothing(i)
               THEN ~EnteredDelayedQueue(i)
               ELSE trace[i][2] \in scene.delayedDirty

\* C5: a dirty notification delivered in the threaded-update phase changes
\* neither body nor caches; it puts the component into the scene's delayed
\* queue unless the component has a smoothed transform (or the world is
\* applying transforms), and then it is dropped without being queued; no
\* step taken inside the threaded phase changes any component or the world,
\* so a queued change reaches the body only when the queue is delivered
\* after the phase has ended.
C5_ThreadedDeferral ==
    /\ []QueuedOrIgnored
    /\ [][(scene.threadedUpdate /\ scene.threadedUpdate')
              => (rb' = rb /\ world' = world)]_vars

\* a node was moved in the threaded phase: its component is queued and its
\* body and caches still hold the old transform
C5_Witness ==
    /\ scene.threadedUpdate
    /\ \E i \in Deliveries : WhileThreaded(i) /\ EnteredDelayedQueue(i)
                             /\ trace[i][2] = ChildBody
    /\ ChildBody \in scene.delayedDirty
    /\ rb[ChildBody].body_ # NullPtr
    /\ NodeWorldPosition(State, ChildBody) # rb[ChildBody].lastPosition_
    /\ GetPosition(State, ChildBody) = rb[ChildBody].lastPosition_

\* C6: with no RigidBody on the parent node and no smoothed transform in
\* use, setWorldTransform(p, r) followed by getWorldTransform reads (p, r)
\* back, and lastPosition_/lastRotation_ equal the node's world transform.
C6_RoundTrip ==
    \A e \in RigidBodies :
        (rb[e].node_ # NullPtr /\ rb[e].body_ # NullPtr
         /\ ParentRigidBodyOf(State, e) = NullPtr
         /\ ~SmoothingActive(State, e)) =>
            \A p \in Positions, r \in Rotations :
                LET w == setWorldTransform(Begin, e, p, r)
                    g == getWorldTransform(w, e)
                IN  /\ g.rb[e].bt.pos = p
                    /\ g.rb[e].bt.rot = r
                    /\ LastKnown(g, e) = NodeTransform(g, e)

\* a turned body with a center of mass off the origin was written to the node
C6_Witness ==
    /\ rb[ChildBody].centerOfMass_ # Zero
    /\ ParentRigidBodyOf(State, ChildBody) = NullPtr
    /\ node[ChildBody].parent = ParentBody
    /\ ~SmoothingActive(State, ChildBody)
    /\ Called("ApplyWorldTransform", ChildBody)
    /\ rb[ChildBody].bt.rot # IDENTITY
    /\ NodeWorldPosition(State, ChildBody) # rb[ChildBody].bt.pos
    /\ NodeWorldPosition(State, ParentBody) # Zero

-----------------------------------------------------------------------------
\* Forces, impulses and the integration of a simulation step (checked under
\* SpecForces); the overloads of ApplyForce and ApplyImpulse that take a
\* position add a torque normal to the plane of the model and are left out

MaxSpeed == 1

Forces == {<<1, 0>>}
Torques == {<<1, 0>>, <<0, 1>>}

\* btRigidBody::m_inverseMass as setMassProps computes it: 0 for mass 0 and
\* 1 / mass otherwise, which is the mass itself for the masses -1 and 1
InverseMass(bt) == IF bt.mass = 0 THEN 0 ELSE bt.mass

\* btRigidBody::m_invInertiaLocal applied to a vector in the plane: a zero
\* inertia component gives a zero inverse; angular velocities are counted in
\* units of the inverse inertia of the body
InvInertia(bt, v) ==
    <<IF bt.inertia[1] = 0 THEN 0 ELSE v[1],
      IF bt.inertia[2] = 0 THEN 0 ELSE v[2]>>

VScale(k, v) == <<k * v[1], k * v[2]>>

\* body_->applyCentralForce: the force joins the accumulated force
ApplyForce(s, e, force) ==
    IF s.rb[e].body_ # NullPtr /\ force # Zero
    THEN [Activate(s, e) EXCEPT !.rb[e].bt.totalForce = VAdd(@, force)]
    ELSE s

\* body_->applyTorque: the torque joins the accumulated torque
ApplyTorque(s, e, torque) ==
    IF s.rb[e].body_ # NullPtr /\ torque # Zero
    THEN [Activate(s, e) EXCEPT !.rb[e].bt.totalTorque = VAdd(@, torque)]
    ELSE s

\* body_->applyCentralImpulse: the velocity grows by impulse * inverse mass
ApplyImpulse(s, e, impulse) ==
    IF s.rb[e].body_ # NullPtr /\ impulse # Zero
    THEN [Activate(s, e) EXCEPT
             !.rb[e].bt.linVel =
                 VAdd(@, VScale(InverseMass(s.rb[e].bt), impulse))]
    ELSE s

\* body_->applyTorqueImpulse: the angular velocity grows by inverse inertia *
\* torque
ApplyTorqueImpulse(s, e, torque) ==
    IF s.rb[e].body_ # NullPtr /\ torque # Zero
    THEN [Activate(s, e) EXCEPT
             !.rb[e].bt.angVel = VAdd(@, InvInertia(s.rb[e].bt, torque))]
    ELSE s

\* one step of btDiscreteDynamicsWorld for a body of the world, with a unit
\* time step: a static body (mass 0) or a kinematic one is left alone; gravity
\* joins the force of a dynamic body, an active dynamic body integrates force
\* and torque into its velocities, and the forces of a dynamic body are
\* cleared
stepSimulation(s, e) ==
    IF s.rb[e].bt.mass = 0 \/ s.rb[e].bt.kinematic THEN s
    ELSE [s EXCEPT
             !.rb[e].bt.linVel =
                 IF s.rb[e].bt.active
                 THEN VAdd(@, VAdd(VScale(InverseMass(s.rb[e].bt),
                                          s.rb[e].bt.totalForce),
                                   s.rb[e].bt.gravity))
                 ELSE @,
             !.rb[e].bt.angVel =
                 IF s.rb[e].bt.active
                 THEN VAdd(@, InvInertia(s.rb[e].bt, s.rb[e].bt.totalTorque))
                 ELSE @,
             !.rb[e].bt.totalForce = Zero,
             !.rb[e].bt.totalTorque = Zero]

\* a handler returns while the velocities and accumulated forces of every
\* body are within the bound
CommitBounded(s) ==
    /\ \A e \in RigidBodies :
           \A v \in {s.rb[e].bt.linVel, s.rb[e].bt.angVel,
                     s.rb[e].bt.totalForce, s.rb[e].bt.totalTorque} :
               v[1] \in -MaxSpeed..MaxSpeed /\ v[2] \in -MaxSpeed..MaxSpeed
    /\ Commit(s)

\* a scene with a physics world without gravity
InitForces ==
    /\ rb = [e \in RigidBodies |-> RigidBodyCtor]
    /\ node = [n \in Nodes |-> [NodeCtor EXCEPT !.shapes = OffsetBox]]
    /\ world = [PhysicsWorldCtor EXCEPT !.gravity = Zero]
    /\ scene = SceneCtor
    /\ nextBody = 1
    /\ trace = <<>>

EditMassAttribute(e) ==
    /\ e \in RigidBodies
    /\ \E value \in {0, 1} :
           Commit(OnSetAttribute(Begin, e, "Mass", value))

CallApplyForce(e) ==
    /\ e \in RigidBodies
    /\ \E force \in Forces : CommitBounded(ApplyForce(Begin, e, force))

CallApplyTorque(e) ==
    /\ e \in RigidBodies
    /\ \E torque \in Torques : CommitBounded(ApplyTorque(Begin, e, torque))

CallApplyImpulse(e) ==
    /\ e \in RigidBodies
    /\ \E impulse \in Forces : CommitBounded(ApplyImpulse(Begin, e, impulse))

CallApplyTorqueImpulse(e) ==
    /\ e \in RigidBodies
    /\ \E torque \in Torques :
           CommitBounded(ApplyTorqueImpulse(Begin, e, torque))

StepSimulation(e) ==
    /\ rb[e].inWorld_
    /\ CommitBounded(stepSimulation(Begin, e))

NextForces ==
    \E e \in {ChildBody} :
        \/ Attach(e)
        \/ CallSetEnabled(e)
        \/ CallSetMass(e)
        \/ EditMassAttribute(e)
        \/ RebuildIfNeeded(e)
        \/ CallSetLinearVelocity(e)
        \/ CallSetAngularVelocity(e)
        \/ CallApplyForce(e)
        \/ CallApplyTorque(e)
        \/ CallApplyImpulse(e)
        \/ CallApplyTorqueImpulse(e)
        \/ StepSimulation(e)
        \/ SimDeactivate(e)

SpecForces == InitForces /\ [][NextForces]_vars

\* the results of every operation that makes or keeps the body massless with
\* a full rebuild: SetMass(0) on a body of another mass, and AddBodyToWorld
\* while the mass is 0
MasslessRebuilds(e) ==
    (IF rb[e].mass_ # 0 THEN {SetMass(Begin, e, 0)} ELSE {})
    \cup (IF rb[e].mass_ = 0 THEN {AddBodyToWorld(Begin, e)} ELSE {})

\* the results of every nonzero force, torque or impulse call on a state
Pushes(s, e) ==
    {ApplyForce(s, e, f) : f \in Forces}
    \cup {ApplyTorque(s, e, q) : q \in Torques}
    \cup {ApplyImpulse(s, e, f) : f \in Forces}
    \cup {ApplyTorqueImpulse(s, e, q) : q \in Torques}

AtRest(s, e) == s.rb[e].bt.linVel = Zero /\ s.rb[e].bt.angVel = Zero

\* C11 as claimed: after SetMass(0) or a full rebuild with mass 0 on an
\* entity that has a body, enabled or disabled and whatever its velocity was,
\* the linear and angular velocity of the body are zero, and they are still
\* zero after a nonzero force, torque or impulse call and a simulation step.
C11_Original ==
    \A e \in RigidBodies :
        rb[e].body_ # NullPtr =>
            \A t \in MasslessRebuilds(e) :
                /\ AtRest(t, e)
                /\ \A u \in Pushes(t, e) :
                       AtRest(u, e) /\ AtRest(stepSimulation(u, e), e)

\* C12 as claimed: a sleeping body whose simulated mass is zero is still
\* asleep after a nonzero ApplyForce, ApplyImpulse, ApplyTorque or
\* ApplyTorqueImpulse, also while a Mass attribute edit awaits its rebuild.
C12_Original ==
    \A e \in RigidBodies :
        (rb[e].body_ # NullPtr /\ rb[e].bt.mass = 0 /\ ~rb[e].bt.active) =>
            \A u \in Pushes(State, e) : ~u.rb[e].bt.active

-----------------------------------------------------------------------------
\* Shapes, constraints and teardown (checked under SpecAssembly)

MaxShapes == 2

Constraints == {1, 2}

Box(pos, rot) == [shape |-> "box", pos |-> pos, rot |-> rot]

\* the CollisionShape components a node can get: a box off the origin, a
\* sphere and a triangle mesh at the origin, and a rotated box
ShapeChoices ==
    {Box(<<1, 0>>, IDENTITY), Box(Zero, 1),
     [shape |-> "sphere", pos |-> Zero, rot |-> IDENTITY],
     [shape |-> "mesh", pos |-> Zero, rot |-> IDENTITY]}

RECURSIVE RemoveChild(_, _)
RemoveChild(children, child) ==
    IF children = <<>> THEN <<>>
    ELSE IF Head(children) = child THEN Tail(children)
    ELSE <<Head(children)>> \o RemoveChild(Tail(children), child)

\* ShapeAggregator.AddShape: the shape joins the compound shape of the body
\* component of its node, and the mass properties are recomputed
AddShape(s, e, child) ==
    UpdateMass([s EXCEPT !.node[s.rb[e].node_].shapes = Append(@, child),
                         !.rb[e].compoundShape_ = Append(@, child)],
               e)

\* ShapeAggregator.RemoveShape
RemoveShape(s, e, child) ==
    UpdateMass([s EXCEPT !.node[s.rb[e].node_].shapes = RemoveChild(@, child),
                         !.rb[e].compoundShape_ = RemoveChild(@, child)],
               e)

\* Constraint::CreateConstraint: a constraint of the node registers itself
\* with the body component when that has a body
CreateConstraint(s, e, c) ==
    IF s.rb[e].body_ # NullPtr
    THEN AddConstraint([s EXCEPT !.node[s.rb[e].node_].constraints = @ \cup {c}],
                       e, c)
    ELSE [s EXCEPT !.node[s.rb[e].node_].constraints = @ \cup {c}]

\* Constraint::ReleaseConstraint of a constraint that leaves the node
ReleaseConstraint(s, e, c) ==
    IF c \in s.rb[e].constraints_
    THEN RemoveConstraint(
             Emit([s EXCEPT !.node[s.rb[e].node_].constraints = @ \ {c}],
                  <<"ReleaseConstraint", c>>),
             e, c)
    ELSE [s EXCEPT !.node[s.rb[e].node_].constraints = @ \ {c}]

\* a scene with or without a physics world, with or without internal edge
\* smoothing; the nodes have no shapes and no constraints yet
InitAssembly ==
    /\ rb = [e \in RigidBodies |-> RigidBodyCtor]
    /\ node = [n \in Nodes |-> NodeCtor]
    /\ \E exists \in BOOLEAN, edge \in BOOLEAN :
           world = [PhysicsWorldCtor EXCEPT !.exists = exists,
                                            !.internalEdge = edge]
    /\ scene = SceneCtor
    /\ nextBody = 1
    /\ trace = <<>>

AddCollisionShape(e) ==
    /\ rb[e].node_ # NullPtr
    /\ Len(node[rb[e].node_].shapes) < MaxShapes
    /\ \E child \in ShapeChoices :
           Commit(AddShape(Emit(Begin, <<"AddShape", e>>), e, child))

RemoveCollisionShape(e) ==
    /\ rb[e].node_ # NullPtr
    /\ \E i \in 1..Len(node[rb[e].node_].shapes) :
           Commit(RemoveShape(Emit(Begin, <<"RemoveShape", e>>), e,
                              node[rb[e].node_].shapes[i]))

AddConstraintComponent(e) ==
    /\ rb[e].node_ # NullPtr
    /\ \E c \in Constraints \ node[rb[e].node_].constraints :
           Commit(CreateConstraint(Begin, e, c))

RemoveConstraintComponent(e) ==
    /\ rb[e].node_ # NullPtr
    /\ \E c \in node[rb[e].node_].constraints :
           Commit(ReleaseConstraint(Begin, e, c))

CallSetRotation(e) ==
    /\ e \in RigidBodies
    /\ \E rotation \in Rotations : Commit(SetRotation(Begin, e, rotation))

\* the component is removed from its node and destroyed; a new component can
\* be created in its place
DestroyComponent(e) ==
    /\ rb[e].node_ # NullPtr
    /\ Commit([Destructor(Begin, e) EXCEPT !.rb[e] = RigidBodyCtor])

NextAssembly ==
    \E e \in {ChildBody} :
        \/ Attach(e)
        \/ CallSetEnabled(e)
        \/ CallSetMass(e)
        \/ CallSetRotation(e)
        \/ AddCollisionShape(e)
        \/ RemoveCollisionShape(e)
        \/ AddConstraintComponent(e)
        \/ RemoveConstraintComponent(e)
        \/ SimDeactivate(e)
        \/ CallReleaseBody(e)
        \/ DestroyComponent(e)

SpecAssembly == InitAssembly /\ [][NextAssembly]_vars

\* C13 as claimed: whenever a body exists, after RemoveConstraint the body is
\* active and the constraint is no longer in the constraint set.
C13_Original ==
    \A e \in RigidBodies :
        rb[e].body_ # NullPtr =>
            \A c \in rb[e].constraints_ :
                /\ RemoveConstraint(Begin, e, c).rb[e].bt.active
                /\ c \notin RemoveConstraint(Begin, e, c).rb[e].constraints_

\* C13 as amended: whenever a body exists, after RemoveConstraint the
\* constraint is no longer in the constraint set; the body is active when the
\* mass of the component is positive, and keeps the activation state it had
\* (awake or asleep) when the mass is zero.
C13_Amended ==
    \A e \in RigidBodies :
        rb[e].body_ # NullPtr =>
            \A c \in rb[e].constraints_ :
                /\ c \notin RemoveConstraint(Begin, e, c).rb[e].constraints_
                /\ IF rb[e].mass_ > 0
                   THEN RemoveConstraint(Begin, e, c).rb[e].bt.active
                   ELSE RemoveConstraint(Begin, e, c).rb[e].bt.active
                            = rb[e].bt.active

\* a constraint was removed from a body of positive mass, which is awake, and
\* another constraint is still attached
C13_Witness ==
    /\ rb[ChildBody].body_ # NullPtr
    /\ rb[ChildBody].mass_ > 0
    /\ rb[ChildBody].bt.active
    /\ rb[ChildBody].constraints_ = {2}
    /\ trace = <<<<"ReleaseConstraint", 1>>>>

-----------------------------------------------------------------------------
\* Gravity (checked under SpecGravity)

WorldGravities == {<<0, -1>>, <<0, -2>>}
Overrides == {Zero, <<1, 0>>}

SetUseGravity(s, e, enable) ==
    IF enable # s.rb[e].useGravity_
    THEN MarkNetworkUpdate(
             UpdateGravity([s EXCEPT !.rb[e].useGravity_ = enable], e), e)
    ELSE s

SetGravityOverride(s, e, gravity) ==
    IF gravity # s.rb[e].gravityOverride_
    THEN MarkNetworkUpdate(
             UpdateGravity([s EXCEPT !.rb[e].gravityOverride_ = gravity], e), e)
    ELSE s

\* PhysicsWorld::SetGravity, which is btDiscreteDynamicsWorld::setGravity: the
\* world keeps the gravity and hands it to every active dynamic body of the
\* world that has not disabled the world gravity
SetWorldGravity(s, gravity) ==
    [s EXCEPT
        !.world.gravity = gravity,
        !.rb = [e \in RigidBodies |->
                   IF /\ s.rb[e].inWorld_
                      /\ s.rb[e].bt.mass # 0
                      /\ s.rb[e].bt.active
                      /\ ~s.rb[e].bt.disableWorldGravity
                   THEN [s.rb[e] EXCEPT !.bt.gravity = gravity]
                   ELSE s.rb[e]]]

CallSetUseGravity(e) ==
    /\ e \in RigidBodies
    /\ \E enable \in BOOLEAN : Commit(SetUseGravity(Begin, e, enable))

CallSetGravityOverride(e) ==
    /\ e \in RigidBodies
    /\ \E gravity \in Overrides :
           Commit(SetGravityOverride(Begin, e, gravity))

CallSetWorldGravity ==
    /\ world.exists
    /\ \E gravity \in WorldGravities :
           Commit(SetWorldGravity(Emit(Begin, <<"SetGravity", 0>>), gravity))

NextGravity ==
    \/ CallSetWorldGravity
    \/ \E e \in {ChildBody} :
           \/ Attach(e)
           \/ CallSetEnabled(e)
           \/ CallSetMass(e)
           \/ CallSetUseGravity(e)
           \/ CallSetGravityOverride(e)
           \/ SimDeactivate(e)

SpecGravity == Init /\ [][NextGravity]_vars

\* the gravity of the body of e in state t is the one resolved from the
\* gravity settings of e against the world gravity of t
GravityResolved(t, e) ==
    IF ~t.rb[e].useGravity_
    THEN t.rb[e].bt.gravity = Zero /\ t.rb[e].bt.disableWorldGravity
    ELSE IF t.rb[e].gravityOverride_ # Zero
         THEN /\ t.rb[e].bt.gravity = t.rb[e].gravityOverride_
              /\ t.rb[e].bt.disableWorldGravity
         ELSE /\ t.rb[e].bt.gravity = t.world.gravity
              /\ ~t.rb[e].bt.disableWorldGravity

\* the results of every operation that resolves the gravity: a setter that
\* changes its setting, and a full rebuild
GravityResolutions(e) ==
    {SetUseGravity(Begin, e, ~rb[e].useGravity_), AddBodyToWorld(Begin, e)}
    \cup {SetGravityOverride(Begin, e, g) : g \in Overrides \ {rb[e].gravityOverride_}}

\* C14: whenever a body exists, without gravity its applied gravity is zero
\* and the disable-world-gravity flag is set, with gravity and a nonzero
\* override the applied gravity is the override and the flag is set, and with
\* gravity and a zero override the flag is cleared and the applied gravity
\* is the world gravity read when SetUseGravity, SetGravityOverride or a
\* full rebuild resolved it; a change of the world gravity changes the applied
\* gravity of a body only in the zero-override case.
C14_GravityResolution ==
    \A e \in RigidBodies :
        /\ rb[e].body_ # NullPtr =>
               \/ rb[e].useGravity_ /\ rb[e].gravityOverride_ = Zero
                      /\ ~rb[e].bt.disableWorldGravity
               \/ GravityResolved(State, e) /\ rb[e].bt.disableWorldGravity
        /\ \A t \in GravityResolutions(e) :
               t.rb[e].body_ # NullPtr => GravityResolved(t, e)
        /\ \A g \in WorldGravities :
               SetWorldGravity(Begin, g).rb[e].bt.gravity # rb[e].bt.gravity
                   => rb[e].useGravity_ /\ rb[e].gravityOverride_ = Zero

\* a body with a nonzero gravity override kept it across a change of the
\* world gravity
C14_Witness ==
    /\ rb[ChildBody].body_ # NullPtr
    /\ rb[ChildBody].useGravity_
    /\ rb[ChildBody].gravityOverride_ = <<1, 0>>
    /\ rb[ChildBody].bt.gravity = <<1, 0>>
    /\ rb[ChildBody].bt.disableWorldGravity
    /\ world.gravity = <<0, -2>>
    /\ trace = <<<<"SetGravity", 0>>>>

\* the shifted compound shape of a component mirrors its compound shape: the
\* same children in the same order, each moved by the center of mass
Mirrors(r) ==
    /\ Len(r.shiftedCompoundShape_) = Len(r.compoundShape_)
    /\ \A i \in 1..Len(r.compoundShape_) :
           /\ r.shiftedCompoundShape_[i].shape = r.compoundShape_[i].shape
           /\ r.shiftedCompoundShape_[i].rot = r.compoundShape_[i].rot
           /\ r.shiftedCompoundShape_[i].pos
                  = VSub(r.compoundShape_[i].pos, r.centerOfMass_)

\* C15 as claimed: after every shape addition and removal with the
\* recomputation it triggers, in every state of the entity including those
\* without a body, the shifted compound shape has the children of the compound
\* shape, the same shapes in the same order with the same rotation, each
\* translated by minus the center of mass.
C15_Original == \A e \in RigidBodies : Mirrors(rb[e])

\* the shape set of a component in state t is one shape whose transform, taken
\* relative to the center of mass, is the identity
SingleAtIdentity(t, e) ==
    /\ Len(t.rb[e].compoundShape_) = 1
    /\ VSub(t.rb[e].compoundShape_[1].pos, t.rb[e].centerOfMass_) = Zero
    /\ t.rb[e].compoundShape_[1].rot = IDENTITY

\* C16: after a recomputation of the mass properties the body exposes the
\* only child shape if and only if there is exactly one shape and its shifted
\* transform is the identity; with no shape, with two or more, or with a
\* rotated one it exposes the shifted compound shape. The custom material
\* flag is set exactly when the single exposed shape is a triangle mesh and
\* the world enables internal edge smoothing.
C16_CollapseRule ==
    \A e \in RigidBodies :
        rb[e].body_ # NullPtr =>
            /\ UpdateMass(Begin, e).rb[e].bt.shape =
                   IF SingleAtIdentity(UpdateMass(Begin, e), e)
                   THEN rb[e].compoundShape_[1].shape
                   ELSE "compound"
            /\ UpdateMass(Begin, e).rb[e].bt.customMaterial =
                   (/\ SingleAtIdentity(UpdateMass(Begin, e), e)
                    /\ rb[e].compoundShape_[1].shape = "mesh"
                    /\ world.internalEdge)

\* a triangle mesh was added as the only shape of a body in a world with
\* internal edge smoothing: the body exposes the mesh and carries the flag
C16_Witness ==
    /\ rb[ChildBody].body_ # NullPtr
    /\ Len(rb[ChildBody].compoundShape_) = 1
    /\ rb[ChildBody].bt.shape = "mesh"
    /\ rb[ChildBody].bt.customMaterial
    /\ Called("AddShape", ChildBody)

\* C17 as claimed: a recomputation of the mass properties gives the body the
\* mass of the component and, when that mass is positive, the local inertia
\* computed at that mass by the shape the body exposes (the only child when
\* the collapse rule applies, the shifted compound shape otherwise), and the
\* zero vector when the mass is 0.
C17_Original ==
    \A e \in RigidBodies :
        rb[e].body_ # NullPtr =>
            /\ UpdateMass(Begin, e).rb[e].bt.mass = rb[e].mass_
            /\ UpdateMass(Begin, e).rb[e].bt.inertia =
                   IF rb[e].mass_ > 0
                   THEN LocalInertia(
                            UpdateMass(Begin, e).rb[e].bt.shape,
                            UpdateMass(Begin, e).rb[e].shiftedCompoundShape_,
                            rb[e].mass_)
                   ELSE <<0, 0, 0>>

\* the results of every recomputation of the mass properties: UpdateMass on
\* the shapes as they are, after every shape addition, and after every
\* shape removal
Recomputations(e) ==
    {UpdateMass(Begin, e)}
    \cup {AddShape(Begin, e, child) : child \in ShapeChoices}
    \cup {RemoveShape(Begin, e, rb[e].compoundShape_[i]) :
              i \in 1..Len(rb[e].compoundShape_)}

\* C18: a recomputation of the mass properties leaves the position and the
\* rotation that GetPosition and GetRotation report as they were, whatever
\* the old and the new center of mass and the rotation of the body, and every
\* constraint attached to the body is told to reapply its frames when the
\* new center of mass is in effect.
C18_UpdateMassKeepsPlace ==
    \A e \in RigidBodies :
        rb[e].body_ # NullPtr =>
            \A t \in Recomputations(e) :
                /\ GetPosition(t, e) = GetPosition(State, e)
                /\ GetRotation(t, e) = GetRotation(State, e)
                /\ \A c \in rb[e].constraints_ :
                       \E i \in 1..Len(t.trace) :
                           t.trace[i] = <<"ApplyFrames", c, t.rb[e].centerOfMass_>>

\* a shape was added to a rotated body with two constraints: the center of
\* mass moved off the origin and both constraints reapplied their frames
C18_Witness ==
    /\ rb[ChildBody].body_ # NullPtr
    /\ rb[ChildBody].bt.rot = 1
    /\ rb[ChildBody].centerOfMass_ = <<1, 0>>
    /\ rb[ChildBody].constraints_ = {1, 2}
    /\ Called("AddShape", ChildBody)
    /\ \E i, j \in 1..Len(trace) :
           /\ i < j
           /\ trace[i] = <<"ApplyFrames", 1, <<1, 0>>>>
           /\ trace[j] = <<"ApplyFrames", 2, <<1, 0>>>>

\* call a is logged in t, and before call b
LoggedBefore(t, a, b) ==
    \E i, j \in 1..Len(t) : i < j /\ t[i] = a /\ t[j] = b

\* C19: when an entity that has a body is torn down, every constraint
\* attached at that moment is released before the body leaves the world, the
\* body leaves the world before it is deleted, and the destructor deletes the
\* two compound shapes last; afterwards the entity has no body and is not in
\* the world.
C19_TeardownOrder ==
    \A e \in RigidBodies :
        rb[e].body_ # NullPtr =>
            /\ \A c \in rb[e].constraints_ :
                   /\ LoggedBefore(ReleaseBody(Begin, e).trace,
                                   <<"ReleaseConstraint", c>>,
                                   <<"delete body_", rb[e].body_>>)
                   /\ rb[e].inWorld_ =>
                          LoggedBefore(ReleaseBody(Begin, e).trace,
                                       <<"ReleaseConstraint", c>>,
                                       <<"removeRigidBody", rb[e].body_>>)
            /\ rb[e].inWorld_ =>
                   LoggedBefore(ReleaseBody(Begin, e).trace,
                                <<"removeRigidBody", rb[e].body_>>,
                                <<"delete body_", rb[e].body_>>)
            /\ CalledIn(ReleaseBody(Begin, e).trace, "delete body_", rb[e].body_)
            /\ Destructor(Begin, e).trace =
                   ReleaseBody(Begin, e).trace
                       \o <<<<"delete compoundShape_", e>>,
                            <<"delete shiftedCompoundShape_", e>>>>
            /\ \A t \in {ReleaseBody(Begin, e), Destructor(Begin, e)} :
                   /\ t.rb[e].body_ = NullPtr
                   /\ ~t.rb[e].inWorld_
                   /\ t.rb[e].constraints_ = {}
                   /\ Registrations(t.world, rb[e].body_) = {}

\* a component whose body was in the world with two constraints attached has
\* been destroyed
C19_Witness ==
    /\ rb[ChildBody].body_ = NullPtr
    /\ trace = <<<<"ReleaseConstraint", 1>>, <<"ReleaseConstraint", 2>>,
                 <<"removeRigidBody", 1>>, <<"delete body_", 1>>,
                 <<"delete compoundShape_", ChildBody>>,
                 <<"delete shiftedCompoundShape_", ChildBody>>>>

-----------------------------------------------------------------------------
\* The stored mass (checked under Spec)

\* C20 as claimed: the mass of every component is at least 0 in every
\* reachable state, after any sequence of SetMass, attribute edits,
\* ApplyAttributes, Attach and SetEnabled, with or without a physics world.
C20_Original == \A e \in RigidBodies : rb[e].mass_ >= 0

-----------------------------------------------------------------------------
\* Full rebuild twice in a row (checked under SpecMotion)

\* C21: from every reachable state a second full rebuild (AddBodyToWorld)
\* directly after a first one leaves the components, the world with its
\* registrations, the nodes and the body allocation as the first one left
\* them: membership, registered layer and mask, flags, mass properties,
\* center of mass, gravity, velocities, activation and the pending rebuild
\* mark.
C21_RebuildIdempotent ==
    \A e \in RigidBodies :
        /\ AddBodyToWorld(AddBodyToWorld(Begin, e), e).rb
               = AddBodyToWorld(Begin, e).rb
        /\ AddBodyToWorld(AddBodyToWorld(Begin, e), e).world
               = AddBodyToWorld(Begin, e).world
        /\ AddBodyToWorld(AddBodyToWorld(Begin, e), e).node
               = AddBodyToWorld(Begin, e).node
        /\ AddBodyToWorld(AddBodyToWorld(Begin, e), e).nextBody
               = AddBodyToWorld(Begin, e).nextBody

\* a moving body of positive mass that was in the world has been rebuilt: it
\* was removed and inserted again and has one registration
C21_Witness ==
    /\ LiveInWorld(ChildBody)
    /\ rb[ChildBody].mass_ = 1
    /\ rb[ChildBody].bt.linVel # Zero
    /\ ~rb[ChildBody].readdBody_
    /\ Cardinality(Registrations(world, rb[ChildBody].body_)) = 1
    /\ CalledIn(trace, "AddBodyToWorld", ChildBody)
    /\ CalledIn(trace, "removeRigidBody", rb[ChildBody].body_)
    /\ CalledIn(trace, "addRigidBody", rb[ChildBody].body_)

-----------------------------------------------------------------------------
\* Smoothing collaborator and node destruction (SpecSmoothing)

\* one dynamic component, its node a child of the scene root, no
\* SmoothedTransform on the node yet
InitSmoothing ==
    /\ rb = [e \in RigidBodies |-> [RigidBodyCtor EXCEPT !.mass_ = 1]]
    /\ node = [n \in Nodes |-> [NodeCtor EXCEPT !.shapes = OffsetBox]]
    /\ world = PhysicsWorldCtor
    /\ scene = SceneCtor
    /\ nextBody = 1
    /\ trace = <<>>

\* a component is attached to its node once
AttachOnce(e) ==
    /\ Idle
    /\ rb[e].body_ = NullPtr
    /\ Attach(e)

\* Node::CreateComponent<SmoothedTransform>: no RigidBody code runs
AddSmoothedTransform(n) ==
    /\ Idle
    /\ ~node[n].smoothed
    /\ Commit(Emit([Begin EXCEPT !.node[n].smoothed = TRUE],
                   <<"AddSmoothedTransform", n>>))

\* Node::RemoveComponent<SmoothedTransform>: no RigidBody code runs
RemoveSmoothedTransform(n) ==
    /\ Idle
    /\ node[n].smoothed
    /\ Commit(Emit([Begin EXCEPT !.node[n].smoothed = FALSE],
                   <<"RemoveSmoothedTransform", n>>))

\* the node is destroyed while the component is kept alive by a shared
\* pointer: Component::SetNode(0), then OnNodeSet(0)
DestroyNode(e) ==
    /\ Idle
    /\ rb[e].node_ # NullPtr
    /\ Commit(OnNodeSet(Emit([Begin EXCEPT !.rb[e].node_ = NullPtr],
                             <<"DestroyNode", e>>),
                        e, NullPtr))

NextSmoothing ==
    \E e \in {ChildBody} :
        \/ AttachOnce(e)
        \/ AddSmoothedTransform(e)
        \/ RemoveSmoothedTransform(e)
        \/ DestroyNode(e)
        \/ BeginStep
        \/ SyncMotionState(e)
        \/ SkipMotionState(e)
        \/ EndStep
        \/ MoveNode(e)

SpecSmoothing == InitSmoothing /\ [][NextSmoothing]_vars

SmoothedTarget(s, n) == <<s.node[n].targetPos, s.node[n].targetRot>>

\* C22 as claimed: whenever the component has a body and a node, it is in
\* the smoothing mode (hasSmoothedTransform_, which silences OnMarkedDirty)
\* exactly when a SmoothedTransform is on its node, and a transform applied
\* by the simulation goes to the SmoothedTransform's target, leaving the node
\* alone, when there is one and to the node when there is none.
C22_Original ==
    \A e \in RigidBodies :
        (rb[e].body_ # NullPtr /\ rb[e].node_ # NullPtr) =>
            /\ rb[e].hasSmoothedTransform_ = node[rb[e].node_].smoothed
            /\ \A p \in Positions, q \in Rotations :
                   IF node[rb[e].node_].smoothed
                   THEN /\ SmoothedTarget(ApplyWorldTransform(Begin, e, p, q),
                                          rb[e].node_) = <<p, q>>
                        /\ NodeTransform(ApplyWorldTransform(Begin, e, p, q),
                                         rb[e].node_)
                               = NodeTransform(State, rb[e].node_)
                   ELSE NodeTransform(ApplyWorldTransform(Begin, e, p, q),
                                      rb[e].node_) = <<p, q>>

\* C23: on a component whose node is gone (node_ is null) getWorldTransform
\* changes neither the transform handed to the simulation nor the
\* lastPosition_/lastRotation_ caches, and setWorldTransform changes nothing
\* at all: no node or target is written, no delayed entry is queued, and no
\* call is logged (no MarkNetworkUpdate, no error).
C23_NodeGone ==
    \A e \in RigidBodies :
        rb[e].node_ = NullPtr =>
            /\ getWorldTransform(Begin, e) = Begin
            /\ \A origin \in Positions, rotation \in Rotations :
                   setWorldTransform(Begin, e, origin, rotation) = Begin

\* the simulation reported the motion of a body whose node was destroyed
C23_Witness ==
    /\ rb[ChildBody].node_ = NullPtr
    /\ LiveInWorld(ChildBody)
    /\ world.stepping
    /\ ChildBody \in world.synced
    /\ trace = <<>>

-----------------------------------------------------------------------------
\* Properties kept by the btRigidBody only (SpecLive)

Frictions == {0, 2}
Radii == {-1, 0, 1}

\* faulty variant: SetFriction that schedules a re-add of the body
SetFriction_Readds(s, e, friction) ==
    IF s.rb[e].body_ # NullPtr
    THEN MarkNetworkUpdate([s EXCEPT !.rb[e].bt.friction = friction,
                                     !.rb[e].readdBody_ = TRUE], e)
    ELSE s

SetFriction(s, e, friction) ==
    IF s.rb[e].body_ # NullPtr
    THEN MarkNetworkUpdate([s EXCEPT !.rb[e].bt.friction = friction], e)
    ELSE s

GetFriction(s, e) ==
    IF s.rb[e].body_ # NullPtr THEN s.rb[e].bt.friction ELSE 0

SetCcdRadius(s, e, radius) ==
    IF s.rb[e].body_ # NullPtr
    THEN MarkNetworkUpdate(
             [s EXCEPT !.rb[e].bt.ccdSweptSphereRadius = Max(radius, 0)], e)
    ELSE s

GetCcdRadius(s, e) ==
    IF s.rb[e].body_ # NullPtr THEN s.rb[e].bt.ccdSweptSphereRadius ELSE 0

GetLinearVelocity(s, e) ==
    IF s.rb[e].body_ # NullPtr THEN s.rb[e].bt.linVel ELSE Zero

GetAngularVelocity(s, e) ==
    IF s.rb[e].body_ # NullPtr THEN s.rb[e].bt.angVel ELSE Zero

CallSetFriction(e) ==
    /\ e \in RigidBodies
    /\ \E friction \in Frictions : Commit(SetFriction(Begin, e, friction))

CallSetCcdRadius(e) ==
    /\ e \in RigidBodies
    /\ \E radius \in Radii : Commit(SetCcdRadius(Begin, e, radius))

NextLive ==
    \E e \in {ChildBody} :
        \/ Attach(e)
        \/ CallSetEnabled(e)
        \/ CallSetMass(e)
        \/ CallReleaseBody(e)
        \/ CallSetFriction(e)
        \/ CallSetCcdRadius(e)
        \/ CallSetLinearVelocity(e)
        \/ CallSetAngularVelocity(e)
        \/ CallSetUseGravity(e)
        \/ CallSetGravityOverride(e)
        \/ SimDeactivate(e)

SpecLive == Init /\ [][NextLive]_vars

\* what no setter of a live property may touch in going from the current
\* state to t: the body object, the membership, the re-add flag, the world
\* with its registrations, the nodes and the allocation counter; no body is
\* removed from or added to the world
MembershipKept(t, e) ==
    /\ t.rb[e].body_ = rb[e].body_
    /\ t.rb[e].inWorld_ = rb[e].inWorld_
    /\ t.rb[e].readdBody_ = rb[e].readdBody_
    /\ t.world = world
    /\ t.node = node
    /\ t.nextBody = nextBody
    /\ \A i \in 1..Len(t.trace) :
           t.trace[i][1] \notin {"removeRigidBody", "addRigidBody",
                                 "AddBodyToWorld", "new btRigidBody"}

\* the outcomes of the setters of the body-kept properties on e, each paired
\* with the component e is expected to be left with when it has a body
BodyKeptEdits(e) ==
    {<<SetFriction(Begin, e, f), [rb[e] EXCEPT !.bt.friction = f]>> :
         f \in Frictions}
    \cup {<<SetCcdRadius(Begin, e, r),
            [rb[e] EXCEPT !.bt.ccdSweptSphereRadius = Max(r, 0)]>> :
              r \in Radii}
    \cup {<<SetLinearVelocity(Begin, e, v),
            [rb[e] EXCEPT !.bt.linVel = v,
                          !.bt.active = @ \/ (v # Zero /\ rb[e].mass_ > 0)]>> :
              v \in Velocities}
    \cup {<<SetAngularVelocity(Begin, e, v),
            [rb[e] EXCEPT !.bt.angVel = v,
                          !.bt.active = @ \/ (v # Zero /\ rb[e].mass_ > 0)]>> :
              v \in Velocities}

\* the outcomes of the two gravity setters on e
GravityEdits(e) ==
    {SetUseGravity(Begin, e, enable) : enable \in BOOLEAN}
    \cup {SetGravityOverride(Begin, e, g) : g \in Overrides}

-----------------------------------------------------------------------------
\* Registration against the stored filter and flags (checked under Spec)

\* C25: whenever a component is in the world and no re-add is pending, its
\* body is registered, every registration of the body carries the
\* component's current collision layer and mask, and the body's kinematic
\* and no-contact-response flags equal the component's kinematic_ and
\* phantom_.
C25_RegistrationCurrent ==
    \A e \in RigidBodies :
        (rb[e].inWorld_ /\ ~rb[e].readdBody_) =>
            /\ Registered(world, rb[e].body_)
            /\ \A i \in Registrations(world, rb[e].body_) :
                   /\ world.bodies[i].layer = rb[e].collisionLayer_
                   /\ world.bodies[i].mask = rb[e].collisionMask_
            /\ rb[e].bt.kinematic = rb[e].kinematic_
            /\ rb[e].bt.noContactResponse = rb[e].phantom_

\* attribute edits of layer, mask, kinematic and phantom were applied to a
\* body in the world by the rebuild of ApplyAttributes
C25_Witness ==
    /\ LiveInWorld(ChildBody)
    /\ ~rb[ChildBody].readdBody_
    /\ rb[ChildBody].collisionLayer_ # DEFAULT_COLLISION_LAYER
    /\ rb[ChildBody].collisionMask_ # DEFAULT_COLLISION_MASK
    /\ rb[ChildBody].kinematic_
    /\ rb[ChildBody].phantom_
    /\ trace # <<>>
    /\ Head(trace) = <<"AddBodyToWorld", ChildBody>>

-----------------------------------------------------------------------------
\* No feedback from a simulation write (checked under SpecXform)

\* the last step applied a simulation write of e, at once or from the
\* delayed queue
Written(e) == Called("ApplyWorldTransform", e) /\ rb[e].node_ # NullPtr

\* OnMarkedDirty of e would reach the comparison with the caches
Compares(e) ==
    /\ rb[e].node_ # NullPtr
    /\ rb[e].body_ # NullPtr
    /\ ~rb[e].hasSmoothedTransform_
    /\ ~scene.threadedUpdate
    /\ ~(rb[e].physicsWorld_ /\ world.applyingTransforms_)

\* OnMarkedDirty pushes exactly the components of the node's world transform
\* that differ from the caches: a pushed component is then the body's and
\* the cache's and the body is awake, a component that agrees is left alone,
\* and nothing at all happens when both agree
PushesDifference(e) ==
    /\ LastKnown(State, e) = NodeTransform(State, rb[e].node_) =>
           OnMarkedDirty(Begin, e) = Begin
    /\ LastKnown(State, e) # NodeTransform(State, rb[e].node_) =>
           /\ LastKnown(OnMarkedDirty(Begin, e), e)
                  = NodeTransform(State, rb[e].node_)
           /\ OnMarkedDirty(Begin, e).rb[e].bt.active
    /\ GetPosition(OnMarkedDirty(Begin, e), e) =
           IF rb[e].lastPosition_ # NodeWorldPosition(State, rb[e].node_)
           THEN NodeWorldPosition(State, rb[e].node_)
           ELSE GetPosition(State, e)
    /\ GetRotation(OnMarkedDirty(Begin, e), e) =
           IF rb[e].lastRotation_ # NodeWorldRotation(State, rb[e].node_)
           THEN NodeWorldRotation(State, rb[e].node_)
           ELSE GetRotation(State, e)

-----------------------------------------------------------------------------
\* Membership of a disabled component (checked under Spec)

\* C27: in every reachable state a component that is in the world is
\* effectively enabled and the body of a disabled component has no
\* registration in the world; AddBodyToWorld on a disabled component with a
\* resolved world leaves it with a body that is neither marked in the world
\* nor registered there.
C27_InWorldImpliesEnabled ==
    \A e \in RigidBodies :
        /\ rb[e].inWorld_ => IsEnabledEffective(State, e)
        /\ (~IsEnabledEffective(State, e) /\ rb[e].body_ # NullPtr) =>
               ~Registered(world, rb[e].body_)
        /\ (~IsEnabledEffective(State, e) /\ rb[e].physicsWorld_) =>
               /\ AddBodyToWorld(Begin, e).rb[e].body_ # NullPtr
               /\ ~AddBodyToWorld(Begin, e).rb[e].inWorld_
               /\ ~Registered(AddBodyToWorld(Begin, e).world,
                              AddBodyToWorld(Begin, e).rb[e].body_)

\* the body of a disabled component was just rebuilt and stayed out of the
\* world
C27_Witness ==
    /\ ~IsEnabledEffective(State, ChildBody)
    /\ rb[ChildBody].body_ # NullPtr
    /\ ~rb[ChildBody].inWorld_
    /\ world.bodies = <<>>
    /\ Rebuilt(State, ChildBody)
    /\ Called("removeRigidBody", rb[ChildBody].body_) = FALSE

=============================================================================
